---------------------------- MODULE Spec2Model ----------------------------
(***************************************************************************)
(* fil-terminator: termination-fee calculation (pkg/utils), the strategy   *)
(* calculation and its concurrent scheduler (cmd/fil-terminator).          *)
(*                                                                         *)
(* Go slices are modelled 0-based where the code indexes them (results,    *)
(* tasks) and as sequences where it only ranges over them (sectors).       *)
(* big.Int values are unbounded integers, and NilInt for a big.Int field   *)
(* that was never assigned.  Error strings are kept up to their fixed      *)
(* prefix (the text before the first format verb).  Strings that are       *)
(* parsed are sequences of characters; instants and durations are exact    *)
(* nanosecond counts with the int64 range of time.Duration.                *)
(*                                                                         *)
(* Specifications: Spec, FairSpec, SpecCancel (scheduler and batch1),      *)
(* SpecSingle (one request), SpecBatch, SpecRows (batch), and SpecParse,   *)
(* SpecTime, SpecAdjust (one call of a function of pkg/utils).             *)
(***************************************************************************)
EXTENDS Integers, Sequences, FiniteSets, TLC

\* ------------------------------------------------------------------ bounds

\* Largest number of miners in one batch.
MaxMiners == 2
\* Largest worker count tried (the --workers flag is any int).
MaxWorkers == 2

\* ------------------------------------------------------- program constants

\* 2880 epochs = 1 day.
EpochsPerDay == 2880
\* A minimum one version too low.
Version16_Older == 16 - 1

\* stactors.Version16: the oldest miner actor version accepted.
Version16 == 16

\* ----------------------------------------------------------------- helpers

Max(a, b) == IF a >= b THEN a ELSE b

\* The zero value of big.Int (go-state-types: struct{ *big.Int }): the
\* embedded pointer is nil.  Every amount the code computes is >= 0.
NilInt == -1

\* The amount a big.Int field shows when printed: types.FIL prints a nil
\* Int as 0.
Amount(x) == IF x = NilInt THEN 0 ELSE x

\* ------------------------------------------------------- external services

\* address.NewFromString: the only miner id of the model that is no address.
ValidAddress(id) == id # "f0bad"

\* ctx is [abortAt |-> k]: the k-th context-taking API call of a calculation
\* (and every later one) finds the context cancelled; 0 = never cancelled.
Background == [abortAt |-> 0]
CtxOk(ctx, k) == ctx.abortAt = 0 \/ k < ctx.abortAt

\* A tipset is known by how it was obtained and its height.
HeadTipSet(view) == [from |-> "head", height |-> view.height]
TipSetAt(epoch) == [from |-> "byHeight", height |-> epoch]

\* miner.PledgePenaltyForContinuedFault (lotus): an opaque deterministic
\* function of the two signals and the sector's power.
PledgePenaltyForContinuedFault(reward, power, qaPower) ==
    (reward.PositionEstimate * qaPower) \div Max(power.PositionEstimate, 1)

\* miner.PledgePenaltyForTermination (lotus): an opaque deterministic
\* function of pledge, age and the fault fee.
PledgePenaltyForTermination(pledge, age, faultFee) ==
    Max(faultFee, pledge * Max(age, 0))

\* stactorsminer.QAPowerForSector
QAPowerForSector(sectorSize, sector) == sectorSize * sector.Weight

\* One entry of the log of external calls a calculation made.
Call(fn, ts, sector, reward, power) ==
    [fn |-> fn, ts |-> ts, sector |-> sector, reward |-> reward, power |-> power]
NoTs == [from |-> "none", height |-> 0]
NoSignal == [PositionEstimate |-> 0, VelocityEstimate |-> 0]
ApiCall(fn, ts) == Call(fn, ts, 0, NoSignal, NoSignal)

\* ------------------------------------------------------- pkg/utils/utils.go

\* int64(growthFactor*1000) with growthFactor = 1.0 + 0.0001*offset, and
\* int64(decayFactor*1000) with decayFactor = max(1.0 - 0.00005*offset, 0.1):
\* the float64 products truncated toward zero.  Where the exact product is
\* not an integer the result is the exact value truncated.  Where it is an
\* integer (offsets that are multiples of 10, resp. 20) the float64 product
\* can fall just short of it: among the offsets below 3640 the growth product
\* does so at 10, 30, 50, ..., 230, and among the offsets below 1320 the
\* decay product never does; neither does at 2880, 86400, 1051200 or
\* 10512000.  Other offsets are not used.
GrowthFactorMilli(offset) ==
    LET roundedDown == {10 + 20 * k : k \in 0..11}
    IN  1000 + (offset \div 10) - (IF offset \in roundedDown THEN 1 ELSE 0)

\* A decay factor without the floor `if decayFactor < 0.1 { decayFactor = 0.1 }`.
DecayFactorMilli_Unfloored(offset) == (20000 - offset) \div 20

DecayFactorMilli(offset) == Max((20000 - offset) \div 20, 100)

AdjustNetworkParams(reward, power, projectionEpochs) ==
    IF projectionEpochs <= 0
    THEN [reward |-> reward, power |-> power]
    ELSE LET g == GrowthFactorMilli(projectionEpochs)
             d == DecayFactorMilli(projectionEpochs)
         IN [reward |-> [PositionEstimate |-> (reward.PositionEstimate * d) \div 1000,
                         VelocityEstimate |-> (reward.VelocityEstimate * d) \div 1000],
             power  |-> [PositionEstimate |-> (power.PositionEstimate * g) \div 1000,
                         VelocityEstimate |-> (power.VelocityEstimate * g) \div 1000]]


\* EpochsToDays: float64(epochs) / 2880.0, kept as the exact fraction.
EpochsToDays(epochs) == [num |-> epochs, den |-> EpochsPerDay]

\* --------------------------------------------- cmd/fil-terminator (strategy)

\* The zero value of StrategyResult.
ZeroStrategyResult ==
    [Index |-> 0, MinerID |-> "", TerminationEpoch |-> 0, ExpirationThreshold |-> 0,
     TotalSectors |-> 0, TerminateSectors |-> 0, ExpireSectors |-> 0,
     TerminationFee |-> NilInt, ExpirationFee |-> NilInt, TotalFee |-> NilInt,
     SectorDetails |-> <<>>, Status |-> "", Error |-> ""]

\* Which tipset the strategy calculation works on.
StrategyTipSet(view, task) ==
    IF task.TerminationEpoch > view.height
    THEN HeadTipSet(view)
    ELSE TipSetAt(task.TerminationEpoch)

\* The threshold test with the boundary excluded.
WithinThreshold_Strict(remainingEpochs, thresholdEpochs) ==
    remainingEpochs < thresholdEpochs

\* `remainingEpochs <= thresholdEpochs`
WithinThreshold(remainingEpochs, thresholdEpochs) ==
    remainingEpochs <= thresholdEpochs

\* A day count that takes a started day for a whole one.
WholeDays_RoundedUp(remainingEpochs) ==
    (remainingEpochs + EpochsPerDay - 1) \div EpochsPerDay

\* `int64(remainingEpochs/2880)`, for the remainingEpochs > 0 of a sector
\* that has not expired
WholeDays(remainingEpochs) == remainingEpochs \div EpochsPerDay

\* The per-sector decision, once both fees are known.
SectorStrategyOf(task, sector, termFee, faultFee) ==
    LET remainingEpochs == sector.Expiration - task.TerminationEpoch
        thresholdEpochs == task.ExpirationThreshold * EpochsPerDay
        expFee == faultFee * WholeDays(remainingEpochs)
        strategy == IF task.ExpirationThreshold = 0 THEN "terminate"
                    ELSE IF WithinThreshold(remainingEpochs, thresholdEpochs) THEN "expire"
                    ELSE "terminate"
    IN [SectorNumber |-> sector.SectorNumber,
        ExpirationEpoch |-> sector.Expiration,
        RemainingDays |-> EpochsToDays(sector.Expiration - task.TerminationEpoch),
        Strategy |-> strategy,
        TerminationFee |-> termFee,
        DailyFaultFee |-> faultFee,
        ExpirationFee |-> expFee,
        RecommendedFee |-> IF strategy = "expire" THEN expFee ELSE termFee]

\* A total that forgets the expiration fees.
CombinedFee_TerminationOnly(terminationFee, expirationFee) == terminationFee

\* `result.TotalFee = big.Add(terminationFee, expirationFee)`
CombinedFee(terminationFee, expirationFee) == terminationFee + expirationFee

\* The skip test with the expiration epoch itself still active.
AlreadyExpired_Strict(terminationEpoch, expiration) == terminationEpoch > expiration

\* "Skip already expired sectors"
AlreadyExpired(terminationEpoch, expiration) == terminationEpoch >= expiration

\* A loop that counts a sector it could not price as one to terminate.
AfterUnpriced_CountsTerminate(acc) == [acc EXCEPT !.terminateCount = @ + 1]

\* `if err != nil { continue }`: what the loop has accumulated is left alone.
AfterUnpriced(acc) == acc

\* The loop over the sectors: acc holds the four totals, the details and the
\* log of penalty calls.
RECURSIVE StrategyLoop(_, _, _, _, _, _)
StrategyLoop(view, task, ts, sectors, i, acc) ==
    IF i > Len(sectors) THEN acc
    ELSE LET sector == sectors[i]
             sectorAge == task.TerminationEpoch - sector.Activation
             faultFee == PledgePenaltyForContinuedFault(view.reward, view.power,
                             QAPowerForSector(view.sectorSize, sector))
             termFee == PledgePenaltyForTermination(sector.InitialPledge, sectorAge, faultFee)
             faultCall == Call("PledgePenaltyForContinuedFault", ts, sector.SectorNumber,
                               view.reward, view.power)
             termCall == Call("PledgePenaltyForTermination", ts, sector.SectorNumber,
                              NoSignal, NoSignal)
             detail == SectorStrategyOf(task, sector, termFee, faultFee)
         IN IF AlreadyExpired(task.TerminationEpoch, sector.Expiration)
            THEN StrategyLoop(view, task, ts, sectors, i + 1, acc)
            ELSE IF sector.SectorNumber \in view.faultErr
            THEN StrategyLoop(view, task, ts, sectors, i + 1,
                     [AfterUnpriced(acc) EXCEPT !.log = Append(@, faultCall)])
            ELSE IF sector.SectorNumber \in view.termErr
            THEN StrategyLoop(view, task, ts, sectors, i + 1,
                     [AfterUnpriced(acc) EXCEPT !.log = @ \o <<faultCall, termCall>>])
            ELSE StrategyLoop(view, task, ts, sectors, i + 1,
                     [terminationFee |-> acc.terminationFee +
                          (IF detail.Strategy = "terminate" THEN termFee ELSE 0),
                      expirationFee |-> acc.expirationFee +
                          (IF detail.Strategy = "expire" THEN detail.ExpirationFee ELSE 0),
                      terminateCount |-> acc.terminateCount +
                          (IF detail.Strategy = "terminate" THEN 1 ELSE 0),
                      expireCount |-> acc.expireCount +
                          (IF detail.Strategy = "expire" THEN 1 ELSE 0),
                      sectorDetails |-> Append(acc.sectorDetails, detail),
                      log |-> acc.log \o <<faultCall, termCall>>])

\* calculateMinerStrategy with the log of the external calls it made:
\* [result |-> the StrategyResult returned, log |-> the calls, in order].
StrategyRun(ctx, view, task) ==
    LET base == [ZeroStrategyResult EXCEPT
                    !.Index = task.Index, !.MinerID = task.MinerID,
                    !.TerminationEpoch = task.TerminationEpoch,
                    !.ExpirationThreshold = task.ExpirationThreshold]
        Failed(msg, log) ==
            [result |-> [base EXCEPT !.Error = msg, !.Status = "failed"], log |-> log]
        ts == StrategyTipSet(view, task)
        L1 == <<ApiCall("ChainHead", NoTs)>>
        L2 == IF ts.from = "head" THEN L1
              ELSE Append(L1, ApiCall("ChainGetTipSetByHeight", ts))
        L3 == Append(L2, ApiCall("StateNetworkVersion", ts))
        L4 == Append(L3, ApiCall("StateGetActor", ts))
        L5 == Append(L4, ApiCall("StateMinerInfo", ts))
        L6 == Append(L5, ApiCall("getNetworkParameters", ts))
        L7 == Append(L6, ApiCall("StateMinerSectors", ts))
        sectors == view.sectors
        acc == StrategyLoop(view, task, ts, sectors, 1,
                   [terminationFee |-> 0, expirationFee |-> 0, terminateCount |-> 0,
                    expireCount |-> 0, sectorDetails |-> <<>>, log |-> L7])
    IN IF ~ValidAddress(task.MinerID) THEN Failed("invalid miner address", <<>>)
       ELSE IF ~(view.headOk /\ CtxOk(ctx, 1))
       THEN Failed("failed to get current height", L1)
       ELSE IF ts.from = "byHeight" /\ ~(view.tipsetOk /\ CtxOk(ctx, 2))
       THEN Failed("failed to get tipset at epoch", L2)
       ELSE IF ~(view.nvOk /\ CtxOk(ctx, 3))
       THEN Failed("failed to get network version", L3)
       ELSE IF ~(view.actorOk /\ CtxOk(ctx, 4))
       THEN Failed("failed to get miner actor", L4)
       ELSE IF ~(view.infoOk /\ CtxOk(ctx, 5))
       THEN Failed("failed to get miner info", L5)
       ELSE IF ~view.codeKnown
       THEN Failed("unsupported miner actor code", L5)
       ELSE IF view.minerVersion < Version16
       THEN Failed("unsupported miner version", L5)
       ELSE IF ~(view.paramsOk /\ CtxOk(ctx, 6))
       THEN Failed("failed to get network parameters", L6)
       ELSE IF ~(view.sectorsOk /\ CtxOk(ctx, 7))
       THEN Failed("failed to get sectors", L7)
       ELSE IF Len(sectors) = 0
       THEN [result |-> [base EXCEPT !.TotalSectors = 0, !.Status = "success"],
             log |-> L7]
       ELSE [result |-> [base EXCEPT
                 !.TotalSectors = Len(sectors),
                 !.TerminateSectors = acc.terminateCount,
                 !.ExpireSectors = acc.expireCount,
                 !.TerminationFee = acc.terminationFee,
                 !.ExpirationFee = acc.expirationFee,
                 !.TotalFee = CombinedFee(acc.terminationFee, acc.expirationFee),
                 !.SectorDetails = acc.sectorDetails,
                 !.Status = "success"],
             log |-> acc.log]

calculateMinerStrategy(ctx, view, task) == StrategyRun(ctx, view, task).result

\* ------------------------------------------ pkg/utils (CalculateTerminationFee)

\* The zero value of CalculationResult.
ZeroCalculationResult ==
    [MinerID |-> "", TargetEpoch |-> 0, CurrentEpoch |-> 0, IsEstimate |-> FALSE,
     TotalSectors |-> 0, ActiveSectors |-> 0, ExpiredSectors |-> 0,
     TotalFee |-> NilInt, SectorResults |-> <<>>, Error |-> ""]

\* "Determine target epoch": 0 means the current height.
ResolveTargetEpoch(reqEpoch, height) == IF reqEpoch = 0 THEN height ELSE reqEpoch

\* The estimate test off by one: the head epoch itself taken as future.
IsEstimateOf_Inclusive(targetEpoch, height) == targetEpoch >= height

\* "Determine if estimation is needed"
IsEstimateOf(targetEpoch, height) == targetEpoch > height

\* Which tipset the fee calculation works on.
CalcTipSet(view, targetEpoch) ==
    IF IsEstimateOf(targetEpoch, view.height)
    THEN HeadTipSet(view)
    ELSE TipSetAt(targetEpoch)

\* The sector with this number (StateSectorGetInfo on a sector that exists).
SectorNumbered(view, num) ==
    LET i == CHOOSE k \in 1..Len(view.sectors) : view.sectors[k].SectorNumber = num
    IN view.sectors[i]

\* "Get sectors": all of them, or the requested ones in request order;
\* ok is FALSE when a lookup failed.
CalcSectors(ctx, view, req) ==
    IF Len(req.SectorNumbers) = 0
    THEN [ok |-> view.sectorsOk /\ CtxOk(ctx, 6), sectors |-> view.sectors, all |-> TRUE]
    ELSE [ok |-> CtxOk(ctx, 6) /\
                 \A k \in 1..Len(req.SectorNumbers) : req.SectorNumbers[k] \notin view.getInfoErr,
          sectors |-> [k \in 1..Len(req.SectorNumbers) |->
                          SectorNumbered(view, req.SectorNumbers[k])],
          all |-> FALSE]

\* The expiry test with the expiration epoch itself still active.
IsExpiredAt_Strict(targetEpoch, expiration) == targetEpoch > expiration

\* "Check if sector has expired at target epoch"
IsExpiredAt(targetEpoch, expiration) == targetEpoch >= expiration

\* A loop that skips a sector it cannot price.
PenaltyErrorReturns_Skip == FALSE

\* Whether the fee loop returns the result at a failing penalty function
\* (`result.Error = ...; return result`).
PenaltyErrorReturns == TRUE

\* The loop over the sectors: acc holds totalFee, expiredSectors, the sector
\* results, the log of penalty calls and the error of the first failing one.
RECURSIVE CalcLoop(_, _, _, _, _, _)
CalcLoop(view, targetEpoch, ts, sectors, i, acc) ==
    IF i > Len(sectors) \/ acc.err # "" THEN acc
    ELSE LET sector == sectors[i]
             sectorAge == targetEpoch - sector.Activation
             faultFee == PledgePenaltyForContinuedFault(view.reward, view.power,
                             QAPowerForSector(view.sectorSize, sector))
             fee == PledgePenaltyForTermination(sector.InitialPledge, sectorAge, faultFee)
             faultCall == Call("PledgePenaltyForContinuedFault", ts, sector.SectorNumber,
                               view.reward, view.power)
             termCall == Call("PledgePenaltyForTermination", ts, sector.SectorNumber,
                              NoSignal, NoSignal)
         IN IF IsExpiredAt(targetEpoch, sector.Expiration)
            THEN CalcLoop(view, targetEpoch, ts, sectors, i + 1,
                     [acc EXCEPT !.expiredSectors = @ + 1,
                                 !.sectorResults = Append(@,
                                     [SectorNumber |-> sector.SectorNumber, Fee |-> NilInt,
                                      Age |-> 0, IsExpired |-> TRUE,
                                      ExpiredDays |-> EpochsToDays(targetEpoch - sector.Expiration)])])
            ELSE IF sector.SectorNumber \in view.faultErr
            THEN IF PenaltyErrorReturns
                 THEN [acc EXCEPT !.err = "failed to calculate fault fee",
                                  !.log = Append(@, faultCall)]
                 ELSE CalcLoop(view, targetEpoch, ts, sectors, i + 1,
                          [acc EXCEPT !.log = Append(@, faultCall)])
            ELSE IF sector.SectorNumber \in view.termErr
            THEN IF PenaltyErrorReturns
                 THEN [acc EXCEPT !.err = "failed to calculate termination fee",
                                  !.log = @ \o <<faultCall, termCall>>]
                 ELSE CalcLoop(view, targetEpoch, ts, sectors, i + 1,
                          [acc EXCEPT !.log = @ \o <<faultCall, termCall>>])
            ELSE CalcLoop(view, targetEpoch, ts, sectors, i + 1,
                     [acc EXCEPT !.totalFee = @ + fee,
                                 !.sectorResults = Append(@,
                                     [SectorNumber |-> sector.SectorNumber, Fee |-> fee,
                                      Age |-> sectorAge, IsExpired |-> FALSE,
                                      ExpiredDays |-> EpochsToDays(0)]),
                                 !.log = @ \o <<faultCall, termCall>>])

\* CalculateTerminationFee with the log of the external calls it made:
\* [result |-> the CalculationResult returned, log |-> the calls, in order].
CalcRun(ctx, view, req) ==
    LET r0 == [ZeroCalculationResult EXCEPT
                  !.MinerID = req.MinerID, !.TargetEpoch = req.TargetEpoch]
        targetEpoch == ResolveTargetEpoch(req.TargetEpoch, view.height)
        r1 == [r0 EXCEPT !.CurrentEpoch = view.height,
                         !.TargetEpoch = targetEpoch,
                         !.IsEstimate = IsEstimateOf(targetEpoch, view.height)]
        ts == CalcTipSet(view, targetEpoch)
        got == CalcSectors(ctx, view, req)
        r2 == [r1 EXCEPT !.TotalSectors = Len(got.sectors)]
        Failed(r, msg, log) == [result |-> [r EXCEPT !.Error = msg], log |-> log]
        L1 == <<ApiCall("ChainHead", NoTs)>>
        L2 == IF ts.from = "head" THEN L1
              ELSE Append(L1, ApiCall("ChainGetTipSetByHeight", ts))
        L3 == Append(L2, ApiCall("StateNetworkVersion", ts))
        L4 == Append(L3, ApiCall("StateGetActor", ts))
        L5 == Append(L4, ApiCall("StateMinerInfo", ts))
        L6 == Append(L5, ApiCall(IF got.all THEN "StateMinerSectors"
                                 ELSE "StateSectorGetInfo", ts))
        L7 == Append(L6, ApiCall("ThisEpochRewardSmoothed", ts))
        L8 == Append(L7, ApiCall("TotalPowerSmoothed", ts))
        acc == CalcLoop(view, targetEpoch, ts, got.sectors, 1,
                   [totalFee |-> 0, expiredSectors |-> 0, sectorResults |-> <<>>,
                    log |-> L8, err |-> ""])
    IN IF ~ValidAddress(req.MinerID) THEN Failed(r0, "invalid miner address", <<>>)
       ELSE IF ~(view.headOk /\ CtxOk(ctx, 1))
       THEN Failed(r0, "failed to get current height", L1)
       ELSE IF ts.from = "byHeight" /\ ~(view.tipsetOk /\ CtxOk(ctx, 2))
       THEN Failed(r1, "failed to get tipset at epoch", L2)
       ELSE IF ~(view.nvOk /\ CtxOk(ctx, 3))
       THEN Failed(r1, "failed to get network version", L3)
       ELSE IF ~(view.actorOk /\ CtxOk(ctx, 4))
       THEN Failed(r1, "failed to get miner actor", L4)
       ELSE IF ~(view.infoOk /\ CtxOk(ctx, 5))
       THEN Failed(r1, "failed to get miner info", L5)
       ELSE IF ~view.codeKnown
       THEN Failed(r1, "unsupported miner actor code", L5)
       ELSE IF view.minerVersion < Version16
       THEN Failed(r1, "unsupported miner version", L5)
       ELSE IF ~got.ok
       THEN Failed(r1, IF got.all THEN "failed to get sectors"
                       ELSE "failed to get sector info", L6)
       ELSE IF ~(view.paramsOk /\ CtxOk(ctx, 7))
       THEN Failed(r2, "failed to load reward actor", L7)
       ELSE IF acc.err # ""
       THEN Failed(r2, acc.err, acc.log)
       ELSE [result |-> [r2 EXCEPT
                 !.ExpiredSectors = acc.expiredSectors,
                 !.ActiveSectors = r2.TotalSectors - acc.expiredSectors,
                 !.TotalFee = acc.totalFee,
                 !.SectorResults = acc.sectorResults],
             log |-> acc.log]

CalculateTerminationFee(ctx, view, req) == CalcRun(ctx, view, req).result

\* ------------------------------------------------------------------- state

VARIABLES
    \* inputs of a run and the chain service behind the API
    miners,               \* []string, 0-based
    workers,              \* the --workers flag
    terminationEpoch,     \* the --termination-epoch flag / the request's epoch
    expirationThreshold,  \* the --expiration-threshold flag
    api,                  \* miner id -> what the chain service answers for it
    ctxDone,              \* the context passed in has been cancelled
    \* processMinersConcurrently
    mpc,                  \* the calling goroutine: "spawn", "goWait", "collect", "returned"
    spawned,              \* i of the worker-starting loop
    taskCh, taskChClosed, \* chan MinerStrategyTask, capacity len(tasks)
    resultCh, resultChClosed, \* chan StrategyResult, capacity len(tasks)
    wg,                   \* sync.WaitGroup counter
    wstate,               \* worker id -> [pc, task, result, late]
    sender,               \* the task-sending goroutine: [pc, next]
    waiter,               \* the wg.Wait goroutine: "idle", "wait", "done"
    results,              \* []StrategyResult, 0-based
    panicked,             \* a send on, or close of, a closed channel happened
    \* history
    invoked,              \* task index -> number of calculateMinerStrategy calls
    lateInvoked,          \* task indices whose call started after cancellation
    written,              \* slot index -> number of writes to results[slot]
    collected,            \* the slot indices written, in the order of the writes
    \* the single-request commands
    sectorNumbers,        \* the request's sector subset (empty: all)
    cout,                 \* <<CalcRun>> once CalculateTerminationFee has returned
    sout,                 \* <<StrategyRun>> once calculateMinerStrategy has returned
    \* batchCalculate
    csvTasks,             \* []MinerTask read from the CSV file, 0-based
    bpc,                  \* "idle", "loop", "done", "panic"
    bresults,             \* []MinerResult, in the order of the appends
    totalFee,             \* the running total of the loop
    blogs,                \* history: the external calls made for each row
    bout,                 \* <<what was printed>> once the command has printed
    \* batch1Calculate, after processMinersConcurrently
    b1pc,                 \* "run", "output", "done", "panic"
    b1totals,             \* [totalTerminationFee, totalExpirationFee]
    b1out,                \* <<what was printed>> once the command has printed
    \* one call of a function of pkg/utils
    uin,                  \* the arguments of the call
    uout                  \* <<what it returned>> once it has returned

vars == <<miners, workers, terminationEpoch, expirationThreshold, api, ctxDone,
          mpc, spawned, taskCh, taskChClosed, resultCh, resultChClosed, wg,
          wstate, sender, waiter, results, panicked, invoked, lateInvoked,
          written, collected, sectorNumbers, cout, sout, csvTasks, bpc,
          bresults, totalFee, blogs, bout, b1pc, b1totals, b1out, uin, uout>>

inputVars == <<miners, workers, terminationEpoch, expirationThreshold, api,
               sectorNumbers, csvTasks>>
singleVars == <<cout, sout>>
batchVars == <<bpc, bresults, totalFee, blogs, bout>>
batch1Vars == <<b1pc, b1totals, b1out>>
utilVars == <<uin, uout>>

N == Cardinality(DOMAIN miners)

\* Task creation that leaves Index at its zero value.
Task_IndexUnset(i) == [Index |-> 0, MinerID |-> miners[i],
                       TerminationEpoch |-> terminationEpoch,
                       ExpirationThreshold |-> expirationThreshold]

\* "Create tasks"
Task(i) == [Index |-> i, MinerID |-> miners[i],
            TerminationEpoch |-> terminationEpoch,
            ExpirationThreshold |-> expirationThreshold]

\* ------------------------------------------------------------------ inputs

MinerIDs == {"f01", "f02", "f03", "f0bad"}

\* Sector n of a miner: activated at epoch n, expiring early (4), soon (12)
\* or a week after epoch 13.
SectorAt(n) ==
    [SectorNumber |-> n, Activation |-> n,
     Expiration |-> CASE n % 3 = 1 -> 4
                      [] n % 3 = 2 -> 12
                      [] OTHER     -> 13 + 7 * EpochsPerDay,
     InitialPledge |-> 10 * n, Weight |-> n]

\* What the chain service answers for one miner; fail names the call that
\* fails ("none": all succeed).
ViewOf(fail, height, nSectors) ==
    [headOk |-> fail # "head", height |-> height,
     tipsetOk |-> fail # "tipset", nvOk |-> fail # "nv",
     actorOk |-> fail # "actor", infoOk |-> fail # "info",
     codeKnown |-> fail # "code",
     minerVersion |-> IF fail = "version" THEN Version16 - 1 ELSE Version16,
     sectorSize |-> 32,
     paramsOk |-> fail # "params",
     reward |-> [PositionEstimate |-> 2000, VelocityEstimate |-> 200],
     power |-> [PositionEstimate |-> 1000, VelocityEstimate |-> 100],
     sectorsOk |-> fail # "sectors",
     sectors |-> [n \in 1..nSectors |-> SectorAt(n)],
     getInfoErr |-> IF fail = "sectors" THEN {1} ELSE {},
     faultErr |-> IF fail = "faultFee" THEN {2} ELSE {},
     termErr |-> IF fail = "termFee" THEN {2} ELSE {}]

\* The chain of the scheduler runs: f01 is healthy, f02's actor lookup fails,
\* f03 has no sectors.
SchedulerApi ==
    [m \in MinerIDs |-> CASE m = "f02" -> ViewOf("actor", 10, 2)
                          [] m = "f03" -> ViewOf("none", 10, 0)
                          [] OTHER     -> ViewOf("none", 10, 2)]

\* The miners of the scheduler runs: one that is priced, one that fails, one
\* without sectors.
SchedulerMiners == {"f01", "f02", "f03"}

\* All 0-based miner lists of 1..MaxMiners ids.
MinerLists == UNION {[0..(n - 1) -> SchedulerMiners] : n \in 1..MaxMiners}

\* ------------------------------------------------------------------- Init

SchedulerIdle ==
    /\ ctxDone = FALSE
    /\ mpc = "spawn"
    /\ spawned = 0
    /\ taskCh = <<>> /\ taskChClosed = FALSE
    /\ resultCh = <<>> /\ resultChClosed = FALSE
    /\ wg = 0
    /\ wstate = <<>>
    /\ sender = [pc |-> "idle", next |-> 0]
    /\ waiter = "idle"
    /\ results = [i \in DOMAIN miners |-> ZeroStrategyResult]
    /\ panicked = FALSE
    /\ invoked = [i \in DOMAIN miners |-> 0]
    /\ lateInvoked = {}
    /\ written = [i \in DOMAIN miners |-> 0]
    /\ collected = <<>>

\* The two batch commands before their first step.
DriversIdle ==
    /\ bresults = <<>> /\ totalFee = 0 /\ blogs = <<>> /\ bout = <<>>
    /\ b1pc = "run"
    /\ b1totals = [totalTerminationFee |-> 0, totalExpirationFee |-> 0]
    /\ b1out = <<>>

\* No function of pkg/utils is being called on its own.
UtilIdle == uin = <<>> /\ uout = <<>>

Init ==
    /\ miners \in MinerLists
    /\ workers \in -1..MaxWorkers
    /\ terminationEpoch = 11
    /\ expirationThreshold = 1
    /\ api = SchedulerApi
    /\ sectorNumbers = <<>>
    /\ cout = <<>> /\ sout = <<>>
    /\ csvTasks = <<>> /\ bpc = "idle"
    /\ DriversIdle
    /\ UtilIdle
    /\ SchedulerIdle

\* ---------------------------------------------- processMinersConcurrently

\* Channels one slot short of the number of tasks.
ChanCap_OneShort == N - 1

\* make(chan ..., len(tasks))
ChanCap == N

\* The loop condition off by one: `i <= workers`.
SpawnMore_Inclusive == spawned <= workers

\* `for i := 0; i < workers; i++`
SpawnMore == spawned < workers

\* `go func(workerID int) { defer wg.Done(); for task := range taskCh {...} }(i)`
MainSpawnWorker ==
    /\ ~panicked /\ mpc = "spawn" /\ SpawnMore
    /\ wg' = wg + 1
    /\ wstate' = wstate @@ (spawned :> [pc |-> "recv", task |-> Task(0),
                                        result |-> ZeroStrategyResult, late |-> FALSE])
    /\ spawned' = spawned + 1
    /\ UNCHANGED <<inputVars, utilVars, singleVars, batchVars, batch1Vars,
                   ctxDone, mpc, taskCh, taskChClosed, resultCh,
                   resultChClosed, sender, waiter, results, panicked, invoked,
                   lateInvoked, written, collected>>

\* "Send tasks": the goroutine is started
MainStartSender ==
    /\ ~panicked /\ mpc = "spawn" /\ ~SpawnMore
    /\ sender' = [pc |-> "send", next |-> 0]
    /\ mpc' = "goWait"
    /\ UNCHANGED <<inputVars, utilVars, singleVars, batchVars, batch1Vars,
                   ctxDone, spawned, taskCh, taskChClosed, resultCh,
                   resultChClosed, wg, wstate, waiter, results, panicked, invoked,
                   lateInvoked, written, collected>>

\* "Wait for workers to finish": the goroutine is started; results is made
MainStartWaiter ==
    /\ ~panicked /\ mpc = "goWait"
    /\ waiter' = "wait"
    /\ mpc' = "collect"
    /\ UNCHANGED <<inputVars, utilVars, singleVars, batchVars, batch1Vars,
                   ctxDone, spawned, taskCh, taskChClosed, resultCh,
                   resultChClosed, wg, wstate, sender, results, panicked, invoked,
                   lateInvoked, written, collected>>

\* `taskCh <- task`
SenderSend ==
    /\ ~panicked /\ sender.pc = "send" /\ sender.next < N
    /\ Len(taskCh) < ChanCap
    /\ IF taskChClosed
       THEN panicked' = TRUE /\ UNCHANGED <<taskCh, sender>>
       ELSE /\ taskCh' = Append(taskCh, Task(sender.next))
            /\ sender' = [sender EXCEPT !.next = @ + 1]
            /\ UNCHANGED panicked
    /\ UNCHANGED <<inputVars, utilVars, singleVars, batchVars, batch1Vars,
                   ctxDone, mpc, spawned, taskChClosed, resultCh,
                   resultChClosed, wg, wstate, waiter, results, invoked, lateInvoked,
                   written, collected>>

\* A sender that forgets close(taskCh).
SenderCloses_Never == FALSE

\* Whether the sending goroutine closes the task channel after its loop.
SenderCloses == TRUE

\* `close(taskCh)`
SenderClose ==
    /\ ~panicked /\ sender.pc = "send" /\ sender.next = N
    /\ sender' = [sender EXCEPT !.pc = "done"]
    /\ IF ~SenderCloses THEN UNCHANGED <<taskChClosed, panicked>>
       ELSE IF taskChClosed THEN panicked' = TRUE /\ UNCHANGED taskChClosed
       ELSE taskChClosed' = TRUE /\ UNCHANGED panicked
    /\ UNCHANGED <<inputVars, utilVars, singleVars, batchVars, batch1Vars,
                   ctxDone, mpc, spawned, taskCh, resultCh,
                   resultChClosed, wg, wstate, waiter, results, invoked, lateInvoked,
                   written, collected>>

\* A receive that leaves the task in the queue.
TaskChAfterRecv_Keep(ch) == ch

\* What `for task := range taskCh` leaves in the channel after a receive.
TaskChAfterRecv(ch) == Tail(ch)

\* `for task := range taskCh`: a task is received; calculateMinerStrategy starts
WorkerRecv(w) ==
    /\ ~panicked /\ wstate[w].pc = "recv" /\ taskCh # <<>>
    /\ LET task == Head(taskCh)
       IN /\ wstate' = [wstate EXCEPT ![w] = [pc |-> "calc", task |-> task,
                                              result |-> ZeroStrategyResult,
                                              late |-> ctxDone]]
          /\ invoked' = [invoked EXCEPT ![task.Index] = @ + 1]
          /\ lateInvoked' = IF ctxDone THEN lateInvoked \cup {task.Index} ELSE lateInvoked
    /\ taskCh' = TaskChAfterRecv(taskCh)
    /\ UNCHANGED <<inputVars, utilVars, singleVars, batchVars, batch1Vars,
                   ctxDone, mpc, spawned, taskChClosed, resultCh,
                   resultChClosed, wg, sender, waiter, results, panicked, written, collected>>

\* The context a call sees: never cancelled; cancelled before it started (its
\* first API call fails); or cancelled while it runs (any API call, or none).
CtxChoices(late) ==
    IF late THEN {[abortAt |-> 1]}
    ELSE IF ctxDone THEN {[abortAt |-> k] : k \in 0..7}
    ELSE {Background}

\* `result := calculateMinerStrategy(ctx, api, task)` returns
WorkerCalc(w) ==
    /\ ~panicked /\ wstate[w].pc = "calc"
    /\ \E ctx \in CtxChoices(wstate[w].late) :
          wstate' = [wstate EXCEPT ![w].pc = "send",
                         ![w].result = calculateMinerStrategy(ctx,
                                           api[wstate[w].task.MinerID], wstate[w].task)]
    /\ UNCHANGED <<inputVars, utilVars, singleVars, batchVars, batch1Vars,
                   ctxDone, mpc, spawned, taskCh, taskChClosed,
                   resultCh, resultChClosed, wg, sender, waiter, results, panicked,
                   invoked, lateInvoked, written, collected>>

\* A worker that leaves its loop after a failed calculation.
WorkerAfterSend_StopOnError(result) == IF result.Error # "" THEN "stop" ELSE "recv"

\* Where a worker goes after sending a result: back to the range loop.
WorkerAfterSend(result) == "recv"

\* `resultCh <- result`
WorkerSend(w) ==
    /\ ~panicked /\ wstate[w].pc = "send"
    /\ Len(resultCh) < ChanCap
    /\ IF resultChClosed
       THEN panicked' = TRUE /\ UNCHANGED <<resultCh, wstate>>
       ELSE /\ resultCh' = Append(resultCh, wstate[w].result)
            /\ wstate' = [wstate EXCEPT ![w].pc = WorkerAfterSend(wstate[w].result)]
            /\ UNCHANGED panicked
    /\ UNCHANGED <<inputVars, utilVars, singleVars, batchVars, batch1Vars,
                   ctxDone, mpc, spawned, taskCh, taskChClosed,
                   resultChClosed, wg, sender, waiter, results, invoked, lateInvoked,
                   written, collected>>

\* The range loop ends: the channel is closed and drained (or the worker
\* stopped); `defer wg.Done()` runs
WorkerExit(w) ==
    /\ ~panicked
    /\ IF wstate[w].pc = "recv" THEN taskCh = <<>> /\ taskChClosed
       ELSE wstate[w].pc = "stop"
    /\ wstate' = [wstate EXCEPT ![w].pc = "done"]
    /\ wg' = wg - 1
    /\ UNCHANGED <<inputVars, utilVars, singleVars, batchVars, batch1Vars,
                   ctxDone, mpc, spawned, taskCh, taskChClosed,
                   resultCh, resultChClosed, sender, waiter, results, panicked,
                   invoked, lateInvoked, written, collected>>

\* `wg.Wait(); close(resultCh)`
WaiterClose ==
    /\ ~panicked /\ waiter = "wait" /\ wg = 0
    /\ waiter' = "done"
    /\ IF resultChClosed THEN panicked' = TRUE /\ UNCHANGED resultChClosed
       ELSE resultChClosed' = TRUE /\ UNCHANGED panicked
    /\ UNCHANGED <<inputVars, utilVars, singleVars, batchVars, batch1Vars,
                   ctxDone, mpc, spawned, taskCh, taskChClosed,
                   resultCh, wg, wstate, sender, results, invoked, lateInvoked, written, collected>>

\* A collector that ignores result.Index.
CollectSlot_First(result) == 0

\* The slot `results[result.Index] = result` writes.
CollectSlot(result) == result.Index

\* `for result := range resultCh { results[result.Index] = result }`
MainCollect ==
    /\ ~panicked /\ mpc = "collect" /\ resultCh # <<>>
    /\ LET result == Head(resultCh)
       IN /\ results' = [results EXCEPT ![CollectSlot(result)] = result]
          /\ written' = [written EXCEPT ![CollectSlot(result)] = @ + 1]
          /\ collected' = Append(collected, CollectSlot(result))
    /\ resultCh' = Tail(resultCh)
    /\ UNCHANGED <<inputVars, utilVars, singleVars, batchVars, batch1Vars,
                   ctxDone, mpc, spawned, taskCh, taskChClosed,
                   resultChClosed, wg, wstate, sender, waiter, panicked, invoked,
                   lateInvoked>>

\* The range over resultCh ends; `return results`
MainReturn ==
    /\ ~panicked /\ mpc = "collect" /\ resultCh = <<>> /\ resultChClosed
    /\ mpc' = "returned"
    /\ UNCHANGED <<inputVars, utilVars, singleVars, batchVars, batch1Vars,
                   ctxDone, spawned, taskCh, taskChClosed, resultCh,
                   resultChClosed, wg, wstate, sender, waiter, results, panicked,
                   invoked, lateInvoked, written, collected>>

\* The caller's context is cancelled while the batch runs.
Cancel ==
    /\ ~panicked /\ ~ctxDone /\ mpc # "returned"
    /\ ctxDone' = TRUE
    /\ UNCHANGED <<inputVars, utilVars, singleVars, batchVars, batch1Vars,
                   mpc, spawned, taskCh, taskChClosed, resultCh,
                   resultChClosed, wg, wstate, sender, waiter, results, panicked,
                   invoked, lateInvoked, written, collected>>

\* batch1Calculate, "Calculate totals": the loop over the returned results.
\* big.Add dereferences both operands, so adding a fee that was never
\* assigned panics; acc.ok is FALSE from then on.
RECURSIVE Batch1TotalsLoop(_, _, _)
Batch1TotalsLoop(rs, i, acc) ==
    IF i \notin DOMAIN rs \/ ~acc.ok THEN acc
    ELSE IF rs[i].Error # "" THEN Batch1TotalsLoop(rs, i + 1, acc)
    ELSE IF rs[i].TerminationFee = NilInt \/ rs[i].ExpirationFee = NilInt
    THEN [acc EXCEPT !.ok = FALSE]
    ELSE Batch1TotalsLoop(rs, i + 1,
             [acc EXCEPT !.totalTerminationFee = @ + rs[i].TerminationFee,
                         !.totalExpirationFee = @ + rs[i].ExpirationFee])

\* processMinersConcurrently has returned: the totals are computed
Batch1Totals ==
    /\ ~panicked /\ mpc = "returned" /\ b1pc = "run"
    /\ LET acc == Batch1TotalsLoop(results, 0,
                      [ok |-> TRUE, totalTerminationFee |-> 0, totalExpirationFee |-> 0])
       IN /\ b1totals' = [totalTerminationFee |-> acc.totalTerminationFee,
                          totalExpirationFee |-> acc.totalExpirationFee]
          /\ b1pc' = IF acc.ok THEN "output" ELSE "panic"
    /\ UNCHANGED <<inputVars, utilVars, singleVars, batchVars, b1out, ctxDone, mpc, spawned, taskCh,
                   taskChClosed, resultCh, resultChClosed, wg, wstate, sender, waiter,
                   results, panicked, invoked, lateInvoked, written, collected>>

\* printSummary's first loop over the 0-based slice rs.
RECURSIVE SummaryLoop(_, _, _)
SummaryLoop(rs, i, acc) ==
    IF i \notin DOMAIN rs THEN acc
    ELSE IF rs[i].Error # "" THEN SummaryLoop(rs, i + 1, acc)
    ELSE SummaryLoop(rs, i + 1,
             [successCount |-> acc.successCount + 1,
              totalSectors |-> acc.totalSectors + rs[i].TotalSectors,
              totalTerminate |-> acc.totalTerminate + rs[i].TerminateSectors,
              totalExpire |-> acc.totalExpire + rs[i].ExpireSectors])

\* printSummary: the counts it prints and the two divisions it performs
\* (a percentage is kept as numerator and denominator).
printSummary(rs, totalTerminationFee, totalExpirationFee) ==
    LET acc == SummaryLoop(rs, 0, [successCount |-> 0, totalSectors |-> 0,
                                   totalTerminate |-> 0, totalExpire |-> 0])
    IN [processed |-> Cardinality(DOMAIN rs),
        successCount |-> acc.successCount,
        failed |-> Cardinality(DOMAIN rs) - acc.successCount,
        totalSectors |-> acc.totalSectors,
        totalTerminate |-> acc.totalTerminate,
        totalExpire |-> acc.totalExpire,
        terminatePercent |-> [num |-> acc.totalTerminate * 100, den |-> acc.totalSectors],
        expirePercent |-> [num |-> acc.totalExpire * 100, den |-> acc.totalSectors],
        totalTerminationFee |-> totalTerminationFee,
        totalExpirationFee |-> totalExpirationFee,
        combined |-> totalTerminationFee + totalExpirationFee]

\* "Output results" and "Print summary": every result is a row of the table
Batch1Output ==
    /\ ~panicked /\ mpc = "returned" /\ b1pc = "output"
    /\ b1out' = <<[rows |-> results,
                   summary |-> printSummary(results, b1totals.totalTerminationFee,
                                            b1totals.totalExpirationFee)]>>
    /\ b1pc' = "done"
    /\ UNCHANGED <<inputVars, utilVars, singleVars, batchVars, b1totals, ctxDone, mpc, spawned,
                   taskCh, taskChClosed, resultCh, resultChClosed, wg, wstate, sender,
                   waiter, results, panicked, invoked, lateInvoked, written, collected>>

Workers == DOMAIN wstate

Next ==
    \/ MainSpawnWorker
    \/ MainStartSender
    \/ MainStartWaiter
    \/ SenderSend
    \/ SenderClose
    \/ \E w \in Workers : WorkerRecv(w)
    \/ \E w \in Workers : WorkerCalc(w)
    \/ \E w \in Workers : WorkerSend(w)
    \/ \E w \in Workers : WorkerExit(w)
    \/ WaiterClose
    \/ MainCollect
    \/ MainReturn
    \/ Batch1Totals
    \/ Batch1Output

\* batch1Calculate: the context is cancelled only after the batch returned.
Spec == Init /\ [][Next]_vars

\* The same under Go's scheduler: a goroutine that can run does run.
FairSpec == Spec /\ WF_vars(Next)

\* processMinersConcurrently called with a context its caller may cancel.
NextCancel == Next \/ Cancel
SpecCancel == Init /\ [][NextCancel]_vars

\* ------------------------------------------- one request, one calculation

\* Largest number of sectors a miner of the single-request runs has.
MaxSectors == 3

FailPoints == {"none", "head", "tipset", "nv", "actor", "info", "code", "version",
               "sectors", "params", "faultFee", "termFee"}

\* The current height of the single-request runs.
HeadHeight == 10

\* Requested epochs: "now", past ones (4: the first sector's expiration), the
\* head itself, and future ones (12: the second sector's expiration; 13: a
\* week before the third's).
TargetEpochs == {0, 3, 4, HeadHeight, HeadHeight + 1, 12, 13}

\* The request of the `calculate` command / one row of the batch CSV.
Request == [MinerID |-> miners[0], TargetEpoch |-> terminationEpoch,
            SectorNumbers |-> sectorNumbers]

InitSingle ==
    /\ miners \in [{0} -> {"f01", "f0bad"}]
    /\ workers = 1
    /\ terminationEpoch \in TargetEpochs
    /\ expirationThreshold \in {0, 1, 7}
    /\ \E fail \in FailPoints, n \in 0..MaxSectors :
          /\ api = [m \in MinerIDs |-> ViewOf(fail, HeadHeight, n)]
          /\ sectorNumbers \in {<<>>} \cup {<<k>> : k \in 1..n}
    /\ cout = <<>> /\ sout = <<>>
    /\ csvTasks = <<>> /\ bpc = "idle"
    /\ DriversIdle
    /\ UtilIdle
    /\ SchedulerIdle

\* `result := utils.CalculateTerminationFee(ctx, api, req)`
Calculate ==
    /\ cout = <<>>
    /\ cout' = <<CalcRun(Background, api[Request.MinerID], Request)>>
    /\ UNCHANGED <<inputVars, utilVars, batchVars, batch1Vars, sout, ctxDone, mpc, spawned, taskCh, taskChClosed, resultCh,
                   resultChClosed, wg, wstate, sender, waiter, results, panicked,
                   invoked, lateInvoked, written, collected>>

\* `calculateMinerStrategy(ctx, api, task)` for the one miner
Strategy ==
    /\ sout = <<>>
    /\ sout' = <<StrategyRun(Background, api[miners[0]], Task(0))>>
    /\ UNCHANGED <<inputVars, utilVars, batchVars, batch1Vars, cout, ctxDone, mpc, spawned, taskCh, taskChClosed, resultCh,
                   resultChClosed, wg, wstate, sender, waiter, results, panicked,
                   invoked, lateInvoked, written, collected>>

NextSingle == Calculate \/ Strategy
SpecSingle == InitSingle /\ [][NextSingle]_vars

\* ----------------------------------------------------------- batchCalculate

\* calculateMinerFee: one CSV row through CalculateTerminationFee (all
\* sectors), converted to a MinerResult; log is the calculation's call log.
calculateMinerFee(ctx, view, task) ==
    LET req == [MinerID |-> task.MinerID, TargetEpoch |-> task.Epoch,
                SectorNumbers |-> <<>>]
        run == CalcRun(ctx, view, req)
        calcResult == run.result
    IN [result |-> [MinerID |-> calcResult.MinerID,
                    Epoch |-> calcResult.TargetEpoch,
                    TotalSectors |-> calcResult.TotalSectors,
                    ActiveSectors |-> calcResult.ActiveSectors,
                    ExpiredSectors |-> calcResult.ExpiredSectors,
                    TotalFee |-> calcResult.TotalFee,
                    Status |-> IF calcResult.Error = "" THEN "success" ELSE "failed",
                    Error |-> calcResult.Error],
        log |-> run.log]

\* Epochs of the CSV rows: "now", a past one and a future one.
BatchEpochs == {0, 3, HeadHeight + 1}

\* All 0-based task lists of 1..MaxMiners rows (an empty file is refused
\* before the loop).
TaskLists ==
    UNION {[0..(n - 1) -> [MinerID : MinerIDs, Epoch : BatchEpochs]] : n \in 1..MaxMiners}

\* The chain of the batch runs: f01 is healthy, f02 fails at `fail`, f03 has
\* no sectors.
BatchApi(fail) ==
    [m \in MinerIDs |-> CASE m = "f02" -> ViewOf(fail, HeadHeight, 2)
                          [] m = "f03" -> ViewOf("none", HeadHeight, 0)
                          [] OTHER     -> ViewOf("none", HeadHeight, MaxSectors)]

InitBatch ==
    /\ csvTasks \in TaskLists
    /\ miners = [i \in DOMAIN csvTasks |-> csvTasks[i].MinerID]
    /\ workers = 1
    /\ terminationEpoch = csvTasks[0].Epoch
    /\ expirationThreshold = 1
    /\ \E fail \in FailPoints : api = BatchApi(fail)
    /\ sectorNumbers = <<>>
    /\ cout = <<>> /\ sout = <<>>
    /\ bpc = "loop"
    /\ DriversIdle
    /\ UtilIdle
    /\ SchedulerIdle

NTasks == Cardinality(DOMAIN csvTasks)

\* A loop that gives up at the first failed row.
BatchContinues_StopOnError(rs) == IF rs = <<>> THEN TRUE ELSE rs[Len(rs)].Error = ""

\* Whether "Process each miner" goes on after the rows in rs: the loop has
\* no break and no return.
BatchContinues(rs) == TRUE

\* One iteration of "Process each miner": the row is calculated, appended,
\* and added to the total when it carries no error (big.Add panics on a fee
\* that was never assigned).
BatchStep ==
    /\ bpc = "loop" /\ Len(bresults) < NTasks /\ BatchContinues(bresults)
    /\ LET task == csvTasks[Len(bresults)]
           run == calculateMinerFee(Background, api[task.MinerID], task)
           result == run.result
       IN /\ bresults' = Append(bresults, result)
          /\ blogs' = Append(blogs, run.log)
          /\ IF result.Error # "" THEN UNCHANGED <<totalFee, bpc>>
             ELSE IF result.TotalFee = NilInt THEN bpc' = "panic" /\ UNCHANGED totalFee
             ELSE totalFee' = totalFee + result.TotalFee /\ UNCHANGED bpc
    /\ UNCHANGED <<inputVars, utilVars, singleVars, batch1Vars, bout, ctxDone, mpc, spawned, taskCh,
                   taskChClosed, resultCh, resultChClosed, wg, wstate, sender, waiter,
                   results, panicked, invoked, lateInvoked, written, collected>>

\* The summary's count of rows with an empty Error.
RECURSIVE SuccessCount(_)
SuccessCount(rs) ==
    IF rs = <<>> THEN 0
    ELSE (IF Head(rs).Error = "" THEN 1 ELSE 0) + SuccessCount(Tail(rs))

\* "Output results" and "Print summary", after the loop
BatchOutput ==
    /\ bpc = "loop" /\ (Len(bresults) = NTasks \/ ~BatchContinues(bresults))
    /\ bout' = <<[rows |-> bresults,
                  processed |-> Len(bresults),
                  successCount |-> SuccessCount(bresults),
                  failed |-> Len(bresults) - SuccessCount(bresults),
                  totalFee |-> totalFee]>>
    /\ bpc' = "done"
    /\ UNCHANGED <<inputVars, utilVars, singleVars, batch1Vars, bresults, totalFee, blogs, ctxDone,
                   mpc, spawned, taskCh, taskChClosed, resultCh, resultChClosed, wg,
                   wstate, sender, waiter, results, panicked, invoked, lateInvoked,
                   written, collected>>

NextBatch == BatchStep \/ BatchOutput
SpecBatch == InitBatch /\ [][NextBatch]_vars

\* The rows of a batch file through batchCalculate, and the first row's miner
\* and epoch through the strategy calculation as well.
NextRows == NextBatch \/ Strategy
SpecRows == InitBatch /\ [][NextRows]_vars

\* ------------------------------------------------------ scheduler claims

Returned == mpc = "returned"

\* What calculateMinerStrategy returns for task i run on its own.
Expected(i) == calculateMinerStrategy(Background, api[miners[i]], Task(i))

\* The calls of calculateMinerStrategy that have started and not returned.
InFlight == {w \in Workers : wstate[w].pc = "calc"}

\* Every goroutine of processMinersConcurrently has run to its end.
AllDone ==
    /\ Returned
    /\ taskCh = <<>> /\ taskChClosed
    /\ resultCh = <<>> /\ resultChClosed
    /\ \A w \in Workers : wstate[w].pc = "done"
    /\ Cardinality(Workers) = workers
    /\ sender.pc = "done" /\ waiter = "done" /\ wg = 0
    /\ ~panicked

\* C1: with W >= 1 workers the returned collection has exactly N entries and
\* entry i is the result computed for task i (Index i, miner i), whatever the
\* order in which the results were completed and collected.
C1_ResultsIndexedAsInput ==
    (Returned /\ workers >= 1) =>
        /\ DOMAIN results = DOMAIN miners
        /\ \A i \in DOMAIN miners :
              /\ results[i].Index = i
              /\ results[i].MinerID = miners[i]
              /\ results[i] = Expected(i)

\* C1 witness: two different miners, two workers, the second task's result
\* collected first.
C1_Witness ==
    /\ Returned /\ workers = 2 /\ N = 2
    /\ miners[0] # miners[1]
    /\ collected = <<1, 0>>
    /\ results[1].MinerID = miners[1]

\* C2: with W >= 1 workers at most W calls of calculateMinerStrategy are in
\* flight in any reachable state.
C2_AtMostWInFlight ==
    workers >= 1 => Cardinality(InFlight) <= workers

\* C2 witness: more tasks than workers could take, and all W workers busy.
C2_Witness ==
    /\ workers >= 1 /\ N > workers
    /\ Cardinality(InFlight) = workers

\* C3: a task whose result carries an error has Status "failed" and its own
\* error, and every other slot holds what its task computes on its own.
C3_FailureIsolated ==
    (Returned /\ workers >= 1) =>
        \A i \in DOMAIN miners :
            results[i].Error # "" =>
                /\ results[i].Status = "failed"
                /\ results[i].Error = Expected(i).Error
                /\ \A j \in DOMAIN miners \ {i} : results[j] = Expected(j)

\* C3 witness: a failed task processed before a successful one by one worker.
C3_Witness ==
    /\ Returned /\ workers = 1 /\ N = 2
    /\ results[0].Error # "" /\ results[0].Status = "failed"
    /\ results[1].Error = "" /\ results[1].Status = "success"

\* C4: under fair scheduling a run with W >= 1 workers reaches the state in
\* which the queue is drained and closed, every worker has exited, the
\* barrier has closed the result channel and the collector has returned.
C4_EventuallyReturns == <>(workers < 1 \/ AllDone)

\* C4 witness: a full batch with two workers completely wound down.
C4_Witness == AllDone /\ workers = 2 /\ N = MaxMiners

\* C5: no task is taken from the queue twice, and at return each task has
\* been run exactly once, a failing run recorded as that task's Error.
C5_EachTaskRunOnce ==
    /\ \A i \in DOMAIN miners : invoked[i] <= 1
    /\ (Returned /\ workers >= 1) =>
          \A i \in DOMAIN miners :
              /\ invoked[i] = 1
              /\ (Expected(i).Error # "" => results[i].Error = Expected(i).Error)

\* C5 witness: the same failing miner twice in one batch, each run once.
C5_Witness ==
    /\ Returned /\ workers >= 1 /\ N = 2
    /\ miners[0] = miners[1]
    /\ \A i \in DOMAIN miners : invoked[i] = 1 /\ results[i].Error # ""

\* C6: every change of the result collection is one write by the collecting
\* goroutine, to a not yet written slot, of the result whose Index is that
\* slot; at return (W >= 1) every slot has been written exactly once.
C6_SlotWrittenOnceByCollector ==
    /\ [][(results' # results \/ written' # written) =>
            /\ mpc = "collect" /\ resultCh # <<>>
            /\ LET r == Head(resultCh)
               IN /\ written[r.Index] = 0
                  /\ r.MinerID = miners[r.Index]
                  /\ results' = [results EXCEPT ![r.Index] = r]
                  /\ written' = [written EXCEPT ![r.Index] = 1]]_vars
    /\ []((Returned /\ workers >= 1) => \A i \in DOMAIN miners : written[i] = 1)

\* C6 witness: both slots of a two-task batch written once, in order.
C6_Witness ==
    /\ Returned /\ workers >= 1 /\ N = 2
    /\ collected = <<0, 1>>
    /\ \A i \in DOMAIN miners : written[i] = 1

\* C7 (as claimed): once the context is cancelled no further task is started,
\* and no written slot changes.
C7_CancelSkipsUnstarted ==
    [][ctxDone =>
          /\ invoked' = invoked
          /\ \A i \in DOMAIN miners : written[i] > 0 => results'[i] = results[i]]_vars

\* ------------------------------------------------------- resolver claims

\* The view of the one miner of a single-request run.
TheView == api[miners[0]]

\* The run got past reading the current height.
PastHead(error) ==
    error \notin {"invalid miner address", "failed to get current height"}

\* The snapshot-at-height lookups of a log.
ByHeightCalls(log) == SelectSeq(log, LAMBDA c : c.fn = "ChainGetTipSetByHeight")

\* The penalty-rate calls of a log: the ones that are handed the two signals.
FaultFeeCalls(log) == SelectSeq(log, LAMBDA c : c.fn = "PledgePenaltyForContinuedFault")

\* The calls after ChainHead are as the mode for (target, current) requires:
\* historical: one lookup at exactly target, everything later on that tipset;
\* projected: no lookup, everything on the head tipset.
ModeFollowed(log, target, current) ==
    IF target <= current
    THEN /\ ByHeightCalls(log) = <<ApiCall("ChainGetTipSetByHeight", TipSetAt(target))>>
         /\ \A k \in 2..Len(log) : log[k].ts = TipSetAt(target)
    ELSE /\ ByHeightCalls(log) = <<>>
         /\ \A k \in 2..Len(log) : log[k].ts = HeadTipSet(TheView)

\* C8: mode selection in both calculations: target <= current uses the tipset
\* fetched at exactly target and is no estimate; target > current uses the
\* head, makes no lookup by height and is an estimate; IsEstimate is
\* (TargetEpoch > CurrentEpoch) in every result that got past the head read.
C8_ModeSelection ==
    /\ \A k \in 1..Len(cout) :
          LET r == cout[k].result
          IN PastHead(r.Error) =>
                /\ r.CurrentEpoch = TheView.height
                /\ r.IsEstimate = (r.TargetEpoch > r.CurrentEpoch)
                /\ ModeFollowed(cout[k].log, r.TargetEpoch, r.CurrentEpoch)
    /\ \A k \in 1..Len(sout) :
          LET r == sout[k].result
          IN PastHead(r.Error) =>
                ModeFollowed(sout[k].log, r.TerminationEpoch, TheView.height)

\* C8 witness: a future epoch, both calculations done and successful, sectors
\* priced on the head tipset.
C8_Witness ==
    /\ Len(cout) = 1 /\ Len(sout) = 1
    /\ cout[1].result.Error = "" /\ cout[1].result.IsEstimate
    /\ cout[1].result.TargetEpoch = HeadHeight + 1
    /\ cout[1].result.ActiveSectors > 0
    /\ sout[1].result.Status = "success" /\ sout[1].result.TerminateSectors > 0

\* C9 (as claimed): a request for epoch 0 is calculated at the current epoch
\* in both paths: the result reports the current epoch as its target, is no
\* estimate, and works on the tipset at the current epoch.
C9_ZeroMeansNow ==
    terminationEpoch = 0 =>
        /\ \A k \in 1..Len(cout) :
              LET r == cout[k].result
              IN PastHead(r.Error) =>
                    /\ r.TargetEpoch = TheView.height
                    /\ r.TargetEpoch = r.CurrentEpoch
                    /\ ~r.IsEstimate
                    /\ ModeFollowed(cout[k].log, TheView.height, TheView.height)
                    /\ \A j \in 1..Len(r.SectorResults) :
                          LET sr == r.SectorResults[j]
                              sector == SectorNumbered(TheView, sr.SectorNumber)
                          IN /\ sr.IsExpired = (TheView.height >= sector.Expiration)
                             /\ ~sr.IsExpired => sr.Age = TheView.height - sector.Activation
        /\ \A k \in 1..Len(sout) :
              LET r == sout[k].result
              IN PastHead(r.Error) =>
                    /\ r.TerminationEpoch = TheView.height
                    /\ ModeFollowed(sout[k].log, TheView.height, TheView.height)

\* C10 (as claimed): for a future epoch every penalty-rate call is handed the
\* signals AdjustNetworkParams projects by target - current.
C10_ProjectedSignalsPriced ==
    terminationEpoch > TheView.height =>
        LET projected == AdjustNetworkParams(TheView.reward, TheView.power,
                                             terminationEpoch - TheView.height)
            Priced(log) == \A k \in 1..Len(FaultFeeCalls(log)) :
                              /\ FaultFeeCalls(log)[k].reward = projected.reward
                              /\ FaultFeeCalls(log)[k].power = projected.power
        IN /\ \A k \in 1..Len(cout) : Priced(cout[k].log)
           /\ \A k \in 1..Len(sout) : Priced(sout[k].log)

\* ------------------------------------------------- error-handling claims

\* The calls of the two penalty functions in a log.
PenaltyCalls(log) ==
    SelectSeq(log, LAMBDA c : c.fn \in {"PledgePenaltyForContinuedFault",
                                        "PledgePenaltyForTermination"})

\* The sector fetches in a log.
SectorFetches(log) ==
    SelectSeq(log, LAMBDA c : c.fn \in {"StateMinerSectors", "StateSectorGetInfo"})

\* A calculation for this miner at this (resolved) epoch reaches the
\* snapshot-at-height lookup and the lookup fails.
SnapshotUnresolved(minerID, epoch) ==
    /\ ValidAddress(minerID) /\ api[minerID].headOk
    /\ epoch <= api[minerID].height
    /\ ~api[minerID].tipsetOk

\* C11: a request whose historical snapshot lookup fails gets a non-empty
\* error and no sector of it is fetched or priced, in CalculateTerminationFee
\* (the batch rows) and in calculateMinerStrategy; the batch loop still
\* processes every row, and every row holds the result of its own request.
C11_SnapshotFailureConfined ==
    /\ \A k \in 1..Len(bresults) :
          LET task == csvTasks[k - 1]
              at == ResolveTargetEpoch(task.Epoch, api[task.MinerID].height)
          IN /\ bresults[k] = calculateMinerFee(Background, api[task.MinerID], task).result
             /\ SnapshotUnresolved(task.MinerID, at) =>
                   /\ bresults[k].Error = "failed to get tipset at epoch"
                   /\ bresults[k].Status = "failed"
                   /\ bresults[k].TotalSectors = 0
                   /\ bresults[k].TotalFee = NilInt
                   /\ SectorFetches(blogs[k]) = <<>>
                   /\ PenaltyCalls(blogs[k]) = <<>>
    /\ bout # <<>> =>
          /\ Len(bout[1].rows) = NTasks
          /\ \A k \in 1..NTasks : bout[1].rows[k].MinerID = csvTasks[k - 1].MinerID
    /\ \A k \in 1..Len(sout) :
          SnapshotUnresolved(miners[0], terminationEpoch) =>
              /\ sout[k].result.Error = "failed to get tipset at epoch"
              /\ sout[k].result.Status = "failed"
              /\ sout[k].result.SectorDetails = <<>>
              /\ SectorFetches(sout[k].log) = <<>>
              /\ PenaltyCalls(sout[k].log) = <<>>

\* C11 witness: the first row's lookup fails (in both calculations), the
\* second row of the same batch is priced, and the table has both.
C11_Witness ==
    /\ bout # <<>> /\ NTasks = 2
    /\ bout[1].rows[1].Error = "failed to get tipset at epoch"
    /\ bout[1].rows[2].Error = "" /\ bout[1].rows[2].TotalFee > 0
    /\ PenaltyCalls(blogs[2]) # <<>>
    /\ sout # <<>> /\ sout[1].result.Error = "failed to get tipset at epoch"

\* ------------------------------------------------- data-model invariants

\* Sum of Fee over the non-expired entries of a SectorResults slice.
RECURSIVE SumActiveFees(_)
SumActiveFees(srs) ==
    IF srs = <<>> THEN 0
    ELSE (IF Head(srs).IsExpired THEN 0 ELSE Amount(Head(srs).Fee)) + SumActiveFees(Tail(srs))

\* The two invariants of a CalculationResult.
CalculationInvariants(r) ==
    /\ r.ActiveSectors + r.ExpiredSectors = r.TotalSectors
    /\ Amount(r.TotalFee) = SumActiveFees(r.SectorResults)

\* C12 (as claimed): every result CalculateTerminationFee returns, with or
\* without an error, has ActiveSectors + ExpiredSectors == TotalSectors and
\* TotalFee equal to the sum of Fee over its non-expired SectorResults.
C12_CalculationInvariants ==
    \A k \in 1..Len(cout) : CalculationInvariants(cout[k].result)

\* Sum of RecommendedFee over the SectorDetails with this Strategy.
RECURSIVE SumRecommended(_, _)
SumRecommended(details, strategy) ==
    IF details = <<>> THEN 0
    ELSE (IF Head(details).Strategy = strategy THEN Head(details).RecommendedFee ELSE 0)
         + SumRecommended(Tail(details), strategy)

PricedSectors(view, epoch) ==
    SelectSeq(view.sectors,
              LAMBDA sec : /\ epoch < sec.Expiration
                           /\ sec.SectorNumber \notin view.faultErr \cup view.termErr)

RequestedSectors(view, numbers) ==
    IF numbers = <<>> THEN view.sectors
    ELSE [k \in 1..Len(numbers) |-> SectorNumbered(view, numbers[k])]

\* The penalty calls a log holds for one sector.
PenaltyCallsFor(log, num) == SelectSeq(PenaltyCalls(log), LAMBDA c : c.sector = num)

\* C15: in a result of CalculateTerminationFee without an error every
\* requested sector has its entry; the entry is expired exactly when
\* targetEpoch >= expiration; an expired entry has ExpiredDays =
\* (targetEpoch - expiration)/2880, no fee and no penalty call; a non-expired
\* entry has Age = targetEpoch - activation and the fee the two penalty
\* functions give, called once each; TotalFee is the sum over the latter.
C15_ExpiryAndAge ==
    \A k \in 1..Len(cout) :
        LET r == cout[k].result
            log == cout[k].log
            sectors == RequestedSectors(TheView, sectorNumbers)
        IN r.Error = "" =>
              /\ Len(r.SectorResults) = Len(sectors)
              /\ \A j \in 1..Len(sectors) :
                    LET sr == r.SectorResults[j]
                        sec == sectors[j]
                    IN /\ sr.SectorNumber = sec.SectorNumber
                       /\ sr.IsExpired = (r.TargetEpoch >= sec.Expiration)
                       /\ sr.IsExpired =>
                             /\ sr.ExpiredDays = [num |-> r.TargetEpoch - sec.Expiration,
                                                  den |-> 2880]
                             /\ sr.Fee = NilInt
                             /\ PenaltyCallsFor(log, sec.SectorNumber) = <<>>
                       /\ ~sr.IsExpired =>
                             /\ sr.Age = r.TargetEpoch - sec.Activation
                             /\ sr.Fee = PledgePenaltyForTermination(sec.InitialPledge, sr.Age,
                                             PledgePenaltyForContinuedFault(TheView.reward,
                                                 TheView.power,
                                                 QAPowerForSector(TheView.sectorSize, sec)))
                             /\ Len(PenaltyCallsFor(log, sec.SectorNumber)) = 2
              /\ r.ExpiredSectors =
                    Cardinality({j \in 1..Len(sectors) : r.TargetEpoch >= sectors[j].Expiration})
              /\ r.TotalFee = SumActiveFees(r.SectorResults)

\* C15 witness: the target epoch is the first sector's expiration epoch: that
\* sector is expired for 0 days, the second one is priced.
C15_Witness ==
    /\ cout # <<>> /\ cout[1].result.Error = ""
    /\ Len(cout[1].result.SectorResults) >= 2
    /\ cout[1].result.TargetEpoch = TheView.sectors[1].Expiration
    /\ cout[1].result.SectorResults[1].IsExpired
    /\ cout[1].result.SectorResults[1].ExpiredDays.num = 0
    /\ ~cout[1].result.SectorResults[2].IsExpired
    /\ cout[1].result.SectorResults[2].Fee > 0
    /\ cout[1].result.TotalFee >= cout[1].result.SectorResults[2].Fee

\* Some call the request needs fails: an API call on its path, or a penalty
\* function for one of its non-expired sectors.
SomeCallFails(view, req) ==
    LET target == ResolveTargetEpoch(req.TargetEpoch, view.height)
        sectors == RequestedSectors(view, req.SectorNumbers)
    IN \/ ~view.headOk
       \/ (target <= view.height /\ ~view.tipsetOk)
       \/ ~view.nvOk \/ ~view.actorOk \/ ~view.infoOk
       \/ (req.SectorNumbers = <<>> /\ ~view.sectorsOk)
       \/ \E j \in 1..Len(req.SectorNumbers) : req.SectorNumbers[j] \in view.getInfoErr
       \/ ~view.paramsOk
       \/ \E j \in 1..Len(sectors) :
             /\ target < sectors[j].Expiration
             /\ sectors[j].SectorNumber \in view.faultErr \cup view.termErr

\* C16: when any external call or either penalty function fails for a
\* request, the result of CalculateTerminationFee carries an Error and
\* neither a total nor sector results: no failing sector is priced as zero
\* and no partial TotalFee is returned.
C16_FailureIsFatal ==
    \A k \in 1..Len(cout) :
        LET r == cout[k].result
        IN SomeCallFails(api[Request.MinerID], Request) =>
              /\ r.Error # ""
              /\ r.TotalFee = NilInt
              /\ r.SectorResults = <<>>
              /\ r.ActiveSectors = 0

\* C16 witness: the termination fee of the second sector fails after the
\* first sector was priced; the result has the error and no total.
C16_Witness ==
    /\ cout # <<>>
    /\ cout[1].result.Error = "failed to calculate termination fee"
    /\ Len(PenaltyCallsFor(cout[1].log, 1)) = 2
    /\ Len(PenaltyCallsFor(cout[1].log, 2)) = 2
    /\ cout[1].result.TotalFee = NilInt

\* The numbers of the sectors a strategy run at this epoch fails to price.
UnpricedSectors(view, epoch) ==
    {view.sectors[j].SectorNumber : j \in {i \in 1..Len(view.sectors) :
        /\ epoch < view.sectors[i].Expiration
        /\ view.sectors[i].SectorNumber \in view.faultErr \cup view.termErr}}

\* The same chain with the unpriceable sectors not there at all.
WithoutUnpriced(view, epoch) ==
    [view EXCEPT !.sectors = SelectSeq(view.sectors,
                     LAMBDA sec : sec.SectorNumber \notin UnpricedSectors(view, epoch)),
                 !.faultErr = {}, !.termErr = {}]

\* C17: a strategy run that reaches its sector loop and cannot price some
\* sector still ends with Status "success" and no Error; the sector has no
\* detail and is tried once; the counters, the fees and the details are what
\* the run gives for the same miner without that sector.
C17_UnpricedSectorOmitted ==
    \A k \in 1..Len(sout) :
        LET r == sout[k].result
            unpriced == UnpricedSectors(TheView, terminationEpoch)
            other == calculateMinerStrategy(Background,
                         WithoutUnpriced(TheView, terminationEpoch), Task(0))
        IN (SectorFetches(sout[k].log) # <<>> /\ TheView.sectorsOk /\ unpriced # {}) =>
              /\ r.Status = "success" /\ r.Error = ""
              /\ r.TotalSectors = Len(TheView.sectors)
              /\ \A j \in 1..Len(r.SectorDetails) :
                    r.SectorDetails[j].SectorNumber \notin unpriced
              /\ \A num \in unpriced :
                    Len(PenaltyCallsFor(sout[k].log, num)) =
                        IF num \in TheView.faultErr THEN 1 ELSE 2
              /\ r.SectorDetails = other.SectorDetails
              /\ r.TerminateSectors = other.TerminateSectors
              /\ r.ExpireSectors = other.ExpireSectors
              /\ r.TerminationFee = other.TerminationFee
              /\ r.ExpirationFee = other.ExpirationFee
              /\ r.TotalFee = other.TotalFee

\* C17 witness: three sectors, the continued-fault fee of the second fails,
\* the other two are priced and the result is a success.
C17_Witness ==
    /\ sout # <<>> /\ sout[1].result.Status = "success"
    /\ sout[1].result.TotalSectors = 3
    /\ UnpricedSectors(TheView, terminationEpoch) = {2}
    /\ Len(PenaltyCallsFor(sout[1].log, 2)) = 1
    /\ Len(sout[1].result.SectorDetails) = 2
    /\ sout[1].result.TerminateSectors + sout[1].result.ExpireSectors = 2
    /\ sout[1].result.TotalFee > 0

\* The numbers of the sectors already expired at this epoch.
ExpiredSectorsAt(view, epoch) ==
    {view.sectors[j].SectorNumber : j \in {i \in 1..Len(view.sectors) :
        epoch >= view.sectors[i].Expiration}}

\* C18: in a successful strategy result the sectors already expired at the
\* termination epoch are counted in TotalSectors only: none has a detail, and
\* TerminateSectors + ExpireSectors is at most the number of the others, and
\* exactly that number when no sector fails pricing.  With threshold 7, one
\* expired sector, one within 7 days of expiration and one further away:
\* expire = 1, terminate = 1, TotalFee == TerminationFee + ExpirationFee.
C18_ExpiredOnlyInTotal ==
    \A k \in 1..Len(sout) :
        LET r == sout[k].result
            expired == ExpiredSectorsAt(TheView, terminationEpoch)
            unpriced == UnpricedSectors(TheView, terminationEpoch)
            decided == r.TerminateSectors + r.ExpireSectors
        IN r.Status = "success" =>
              /\ r.TotalSectors = Len(TheView.sectors)
              /\ \A j \in 1..Len(r.SectorDetails) :
                    r.SectorDetails[j].SectorNumber \notin expired
              /\ Len(r.SectorDetails) = decided
              /\ r.TotalSectors - decided >= Cardinality(expired)
              /\ unpriced = {} => r.TotalSectors - decided = Cardinality(expired)
              /\ (/\ expirationThreshold = 7 /\ unpriced = {}
                  /\ Len(TheView.sectors) = 3
                  /\ expired = {1}
                  /\ TheView.sectors[2].Expiration - terminationEpoch <= 7 * 2880
                  /\ TheView.sectors[3].Expiration - terminationEpoch > 7 * 2880) =>
                    /\ r.ExpireSectors = 1 /\ r.TerminateSectors = 1
                    /\ r.TotalFee = r.TerminationFee + r.ExpirationFee

\* C18 witness: threshold 7 and three sectors: the first expired exactly at
\* the termination epoch, the second within 7 days, the third further away.
C18_Witness ==
    /\ sout # <<>> /\ sout[1].result.Status = "success"
    /\ expirationThreshold = 7
    /\ sout[1].result.TotalSectors = 3
    /\ terminationEpoch = TheView.sectors[1].Expiration
    /\ Len(sout[1].result.SectorDetails) = 2
    /\ sout[1].result.SectorDetails[1].Strategy = "expire"
    /\ sout[1].result.SectorDetails[2].Strategy = "terminate"
    /\ sout[1].result.ExpireSectors = 1 /\ sout[1].result.TerminateSectors = 1

\* C19: for a miner whose actor version is below 16 or whose actor code is
\* unknown both calculations return an error result (the version or code
\* error when nothing failed before that test) whose call log holds no
\* sector fetch and no penalty call, and which reports no sector.
C19_OldVersionFailsFast ==
    (TheView.minerVersion < 16 \/ ~TheView.codeKnown) =>
        LET FailedFast(r, log) ==
                /\ r.Error # ""
                /\ ValidAddress(miners[0]) =>
                      r.Error = IF TheView.codeKnown THEN "unsupported miner version"
                                ELSE "unsupported miner actor code"
                /\ r.TotalSectors = 0
                /\ SectorFetches(log) = <<>>
                /\ PenaltyCalls(log) = <<>>
        IN /\ \A k \in 1..Len(cout) :
                 /\ FailedFast(cout[k].result, cout[k].log)
                 /\ cout[k].result.SectorResults = <<>>
           /\ \A k \in 1..Len(sout) :
                 /\ FailedFast(sout[k].result, sout[k].log)
                 /\ sout[k].result.Status = "failed"
                 /\ sout[k].result.SectorDetails = <<>>

\* C19 witness: a version-15 miner with sectors on chain, refused by both
\* calculations.
C19_Witness ==
    /\ TheView.minerVersion = 15 /\ Len(TheView.sectors) = 3
    /\ cout # <<>> /\ cout[1].result.Error = "unsupported miner version"
    /\ sout # <<>> /\ sout[1].result.Error = "unsupported miner version"
    /\ cout[1].result.TotalSectors = 0 /\ sout[1].result.TotalSectors = 0

\* ------------------------------------------------------- driver claims

\* Sum of f[i], f[i+1], ... over the indices f has.
RECURSIVE SumFrom(_, _)
SumFrom(f, i) == IF i \notin DOMAIN f THEN 0 ELSE f[i] + SumFrom(f, i + 1)

\* The amount each row adds to a fleet total: its fee when it has no Error.
Contribution(rs, fee) ==
    [i \in DOMAIN rs |-> IF rs[i].Error = "" THEN Amount(rs[i][fee]) ELSE 0]

\* The table and totals batchCalculate printed: one row per task, row k for
\* task k, the total the sum of TotalFee over the rows without an Error.
BatchTableComplete ==
    /\ bpc # "panic"
    /\ bout # <<>> =>
          /\ Len(bout[1].rows) = NTasks
          /\ \A k \in 1..NTasks :
                /\ bout[1].rows[k].MinerID = csvTasks[k - 1].MinerID
                /\ bout[1].rows[k].Status = IF bout[1].rows[k].Error = "" THEN "success"
                                            ELSE "failed"
          /\ bout[1].totalFee = SumFrom(Contribution(bout[1].rows, "TotalFee"), 1)
          /\ bout[1].successCount + bout[1].failed = NTasks

\* The table and totals batch1Calculate printed: one row per miner, row i for
\* miner i, each total the sum over the rows without an Error.
Batch1TableComplete ==
    /\ b1pc # "panic"
    /\ b1out # <<>> =>
          /\ DOMAIN b1out[1].rows = DOMAIN miners
          /\ \A i \in DOMAIN miners : b1out[1].rows[i].MinerID = miners[i]
          /\ b1out[1].summary.totalTerminationFee =
                SumFrom(Contribution(b1out[1].rows, "TerminationFee"), 0)
          /\ b1out[1].summary.totalExpirationFee =
                SumFrom(Contribution(b1out[1].rows, "ExpirationFee"), 0)
          /\ b1out[1].summary.successCount + b1out[1].summary.failed = N

\* C20 (as claimed): with at least one worker each batch driver gets to print
\* its table, with one row per input task, failed ones included, and fleet
\* totals that are the sums over the rows with an empty Error.
C20_RowsAndTotals ==
    workers >= 1 => (BatchTableComplete /\ Batch1TableComplete)

\* C21 (as claimed): the summary batch1Calculate prints never divides by a
\* total of 0 analysed sectors: whenever a percentage was computed, its
\* denominator was not 0.
C21_NoDivisionByZero ==
    b1out # <<>> =>
        /\ b1out[1].summary.terminatePercent.den # 0
        /\ b1out[1].summary.expirePercent.den # 0


\* ------------------------------------------------------ ParseSectorNumbers
\* A Go string is modelled as the sequence of its characters.

DigitChars == {"0", "1", "2", "3", "4", "5", "6", "7", "8", "9"}

DigitValue(c) ==
    CASE c = "0" -> 0 [] c = "1" -> 1 [] c = "2" -> 2 [] c = "3" -> 3
      [] c = "4" -> 4 [] c = "5" -> 5 [] c = "6" -> 6 [] c = "7" -> 7
      [] c = "8" -> 8 [] c = "9" -> 9

\* strings.Split(s, sep) for a one-character separator: k separators give
\* k + 1 parts, empty ones included.
RECURSIVE Split(_, _)
Split(s, sep) ==
    IF \A i \in 1..Len(s) : s[i] # sep THEN <<s>>
    ELSE LET i == CHOOSE i \in 1..Len(s) :
                      s[i] = sep /\ \A j \in 1..(i - 1) : s[j] # sep
         IN <<SubSeq(s, 1, i - 1)>> \o Split(SubSeq(s, i + 1, Len(s)), sep)

\* strings.TrimSpace(s); the space is the only white space of the inputs.
RECURSIVE TrimSpace(_)
TrimSpace(s) ==
    IF s = <<>> THEN s
    ELSE IF s[1] = " " THEN TrimSpace(Tail(s))
    ELSE IF s[Len(s)] = " " THEN TrimSpace(SubSeq(s, 1, Len(s) - 1))
    ELSE s

\* strings.Contains(s, c) for a one-character c
Contains(s, c) == \E i \in 1..Len(s) : s[i] = c

\* The value of a run of decimal digits, as strconv.Atoi accumulates it.
RECURSIVE DecimalValue(_)
DecimalValue(s) ==
    IF s = <<>> THEN 0
    ELSE 10 * DecimalValue(SubSeq(s, 1, Len(s) - 1)) + DigitValue(s[Len(s)])

\* strconv.Atoi(s) as [ok, val]: an optional sign, then one or more decimal
\* digits and nothing else.  The inputs are far too short to overflow int.
Atoi(s) ==
    LET signed == IF s = <<>> THEN FALSE ELSE s[1] \in {"+", "-"}
        body   == IF signed THEN Tail(s) ELSE s
    IN  IF body = <<>> THEN [ok |-> FALSE, val |-> 0]
        ELSE IF \E i \in 1..Len(body) : body[i] \notin DigitChars
        THEN [ok |-> FALSE, val |-> 0]
        ELSE [ok |-> TRUE,
              val |-> IF s[1] = "-" THEN 0 - DecimalValue(body)
                      ELSE DecimalValue(body)]

\* `return nil, fmt.Errorf(...)`
ParseError(msg) == [err |-> msg, isNil |-> TRUE, sectors |-> <<>>]

\* A range loop that stops one short of `end`.
RangeOf_Exclusive(start, end) == [k \in 1..(end - start) |-> start + k - 1]

\* `for i := start; i <= end; i++ { sectors = append(sectors, ...) }`
RangeOf(start, end) == [k \in 1..(end - start + 1) |-> start + k - 1]

\* A range test that lets every range through.
RangeDescending_Never(start, end) == FALSE

\* `if start > end`
RangeDescending(start, end) == start > end

\* The loop over the comma-separated parts, from part i on.
RECURSIVE ParseParts(_, _, _)
ParseParts(parts, i, sectors) ==
    IF i > Len(parts)
    THEN [err |-> "", isNil |-> FALSE, sectors |-> sectors]
    ELSE
    LET part == TrimSpace(parts[i]) IN
    IF part = <<>> THEN ParseParts(parts, i + 1, sectors)
    ELSE IF Contains(part, "-")
    THEN LET rangeParts == Split(part, "-")
             start      == Atoi(TrimSpace(rangeParts[1]))
             end        == Atoi(TrimSpace(rangeParts[2]))
         IN  IF Len(rangeParts) # 2 THEN ParseError("invalid range format")
             ELSE IF ~start.ok THEN ParseError("invalid start sector number")
             ELSE IF ~end.ok THEN ParseError("invalid end sector number")
             ELSE IF RangeDescending(start.val, end.val)
             THEN ParseError("start sector number cannot be greater than end sector number")
             ELSE ParseParts(parts, i + 1,
                             sectors \o RangeOf(start.val, end.val))
    ELSE LET num == Atoi(part)
         IN  IF ~num.ok THEN ParseError("invalid sector number")
             ELSE IF num.val < 0
             THEN ParseError("sector number cannot be negative")
             ELSE ParseParts(parts, i + 1, sectors \o <<num.val>>)

\* ParseSectorNumbers(s) as [err, isNil, sectors]; sectors starts as the
\* empty, non-nil `make([]abi.SectorNumber, 0)`.
ParseSectorNumbers(s) == ParseParts(Split(s, ","), 1, <<>>)

MaxInputLen == 4

\* The inputs: every string of up to MaxInputLen characters of Alphabet, the
\* inputs of TestParseSectorNumbers that are longer than that, and three
\* more with a token behind good ones.
SectorStrings ==
    LET Alphabet == {"0", "1", "3", "a", "+", "-", ",", " "}
    IN  UNION {[1..k -> Alphabet] : k \in 0..MaxInputLen} \cup
    { <<"1", ",", "3", "-", "5", ",", "7">>,
      <<"1", ",", "2", ",", "3">>,
      <<"1", " ", "-", " ", "3">>,
      <<"1", ",", " ", "2", " ", ",", " ", "3">>,
      <<"1", ",", ",", ",", "2">>,
      <<"1", "-", "2", "-", "3">>,
      <<"a", "b", "c", "-", "3">>,
      <<"1", "-", "a", "b", "c">>,
      <<"1", ",", "3", "-", "1">>,
      <<"0", "-", "2", ",", "-", "1">>,
      <<"1", ",", ",", "1", ",", " ", "0", " ", "-", " ", "1">> }

\* Every command is at rest while one function of pkg/utils is called.
CommandsIdle ==
    /\ miners = <<>> /\ workers = 1
    /\ terminationEpoch = 11 /\ expirationThreshold = 1
    /\ api = SchedulerApi
    /\ sectorNumbers = <<>>
    /\ cout = <<>> /\ sout = <<>>
    /\ csvTasks = <<>> /\ bpc = "idle"
    /\ DriversIdle
    /\ SchedulerIdle

InitParse ==
    /\ uin \in SectorStrings
    /\ uout = <<>>
    /\ CommandsIdle

\* `sectors, err := utils.ParseSectorNumbers(s)`
ParseCall ==
    /\ uout = <<>>
    /\ uout' = <<ParseSectorNumbers(uin)>>
    /\ UNCHANGED <<inputVars, singleVars, batchVars, batch1Vars, uin, ctxDone,
                   mpc, spawned, taskCh, taskChClosed, resultCh,
                   resultChClosed, wg, wstate, sender, waiter, results,
                   panicked, invoked, lateInvoked, written, collected>>

SpecParse == InitParse /\ [][ParseCall]_vars


\* What the description says of the input, read off its characters.

\* The k-th comma-separated token of s, k from 1.
CommaPositions(s) == {i \in 1..Len(s) : s[i] = ","}

TokenCount(s) == Cardinality(CommaPositions(s)) + 1

Token(s, k) ==
    LET Comma(n) == CHOOSE i \in CommaPositions(s) :
                        Cardinality({j \in CommaPositions(s) : j < i}) = n - 1
        start == IF k = 1 THEN 1 ELSE Comma(k - 1) + 1
        end   == IF k = TokenCount(s) THEN Len(s) ELSE Comma(k) - 1
    IN  SubSeq(s, start, end)

\* t without the spaces around it.
Unpadded(t) ==
    LET inked == {i \in 1..Len(t) : t[i] # " "}
    IN  IF inked = {} THEN <<>>
        ELSE SubSeq(t, CHOOSE i \in inked : \A j \in inked : i <= j,
                       CHOOSE i \in inked : \A j \in inked : j <= i)

\* A decimal numeral, with or without a plus sign, and the number it denotes.
IsNumeral(t) ==
    LET digits == IF t # <<>> /\ t[1] = "+" THEN Tail(t) ELSE t
    IN  digits # <<>> /\ \A i \in 1..Len(digits) : digits[i] \in DigitChars

RECURSIVE PlaceValues(_, _)
PlaceValues(t, i) ==
    IF i > Len(t) THEN 0
    ELSE (IF t[i] = "+" THEN 0 ELSE DigitValue(t[i]) * 10 ^ (Len(t) - i))
         + PlaceValues(t, i + 1)

NumberOf(t) == PlaceValues(t, 1)

DashPositions(t) == {i \in 1..Len(t) : t[i] = "-"}

LowerBound(t) ==
    Unpadded(SubSeq(t, 1, (CHOOSE i \in DashPositions(t) : TRUE) - 1))

UpperBound(t) ==
    Unpadded(SubSeq(t, (CHOOSE i \in DashPositions(t) : TRUE) + 1, Len(t)))

IsBlankToken(t) == Unpadded(t) = <<>>

IsPlainToken(t) == IsNumeral(Unpadded(t))

\* "a-b" with numerals a and b
IsRangeShaped(t) ==
    IF Cardinality(DashPositions(t)) # 1 THEN FALSE
    ELSE IsNumeral(LowerBound(t)) /\ IsNumeral(UpperBound(t))

\* Every token is blank, a numeral or a range a-b with a <= b.
WellFormedInput(s) ==
    \A k \in 1..TokenCount(s) :
        LET t == Token(s, k)
        IN  \/ IsBlankToken(t)
            \/ IsPlainToken(t)
            \/ IF IsRangeShaped(t)
               THEN NumberOf(LowerBound(t)) <= NumberOf(UpperBound(t))
               ELSE FALSE

\* The numbers a well-formed token stands for.
TokenSectors(t) ==
    IF IsBlankToken(t) THEN <<>>
    ELSE IF IsPlainToken(t) THEN <<NumberOf(Unpadded(t))>>
    ELSE LET a == NumberOf(LowerBound(t))
             b == NumberOf(UpperBound(t))
         IN  [n \in 1..(b - a + 1) |-> a + n - 1]

\* The numbers of tokens k.. of a well-formed input, in the order written.
RECURSIVE SectorsFrom(_, _)
SectorsFrom(s, k) ==
    IF k > TokenCount(s) THEN <<>>
    ELSE TokenSectors(Token(s, k)) \o SectorsFrom(s, k + 1)

\* The four kinds of bad token: not numeric, a negative number (nothing
\* before its '-'), a descending range, more than one '-'.
IsBadToken(t) ==
    LET dashes == Cardinality(DashPositions(t))
        nonNumeric ==
            /\ ~IsBlankToken(t)
            /\ IF dashes = 0 THEN ~IsPlainToken(t)
               ELSE IF dashes # 1 THEN FALSE
               ELSE ~IsRangeShaped(t) /\ LowerBound(t) # <<>>
        negative == IF dashes # 1 THEN FALSE ELSE LowerBound(t) = <<>>
        descending == IF IsRangeShaped(t)
                      THEN NumberOf(LowerBound(t)) > NumberOf(UpperBound(t))
                      ELSE FALSE
    IN  nonNumeric \/ negative \/ descending \/ dashes > 1

\* C22: ParseSectorNumbers on a well-formed input returns, without an error,
\* the numbers in the order written: a plain token gives its number, a range
\* a-b with a <= b gives a, a+1, ..., b, spaces around tokens and range bounds
\* are ignored, empty tokens are skipped and duplicates are kept; "" gives
\* the empty list and "1,3-5,7" gives [1, 3, 4, 5, 7].
C22_WellFormedParses ==
    uout # <<>> /\ uin \in SectorStrings =>
        /\ WellFormedInput(uin) =>
              /\ uout[1].err = "" /\ ~uout[1].isNil
              /\ uout[1].sectors = SectorsFrom(uin, 1)
        /\ uin = <<>> => uout[1].err = "" /\ uout[1].sectors = <<>>
        /\ uin = <<"1", ",", "3", "-", "5", ",", "7">> =>
              uout[1].err = "" /\ uout[1].sectors = <<1, 3, 4, 5, 7>>

\* "1,,1, 0 - 1", with a padded range, an empty token and a duplicate, has
\* been parsed.
C22_Witness ==
    /\ uout # <<>>
    /\ uin = <<"1", ",", ",", "1", ",", " ", "0", " ", "-", " ", "1">>
    /\ uout[1].err = "" /\ uout[1].sectors = <<1, 1, 0, 1>>

\* C23: ParseSectorNumbers fails, returning an error and a nil list, whenever
\* some token is non-numeric, a negative number, a descending range or has
\* more than one '-', wherever that token sits in the input.
C23_BadTokenFails ==
    uout # <<>> /\ uin \in SectorStrings =>
        ((\E k \in 1..TokenCount(uin) : IsBadToken(Token(uin, k)))
            => uout[1].err # "" /\ uout[1].isNil /\ uout[1].sectors = <<>>)

\* A descending range behind a good token has been rejected.
C23_Witness ==
    /\ uout # <<>> /\ uin = <<"1", ",", "3", "-", "1">>
    /\ uout[1].err # "" /\ uout[1].isNil


\* ------------------------------------------------ EpochToTime, TimeToEpoch
\* time.Time and time.Duration count nanoseconds, a Duration in an int64.
\* A count of nanoseconds is written [ep, g]: ep whole epochs of 30 s and
\* g further units of 1024 ns, 0 <= g < EpochUnits.  Instants are counted
\* from 2020-08-24T22:00:00Z, the genesis time of the tests.

\* `EpochDuration = 30 * time.Second`, in units of 1024 ns
EpochUnits == 29296875

Nanos(ep, g) == [ep |-> ep + (g \div EpochUnits), g |-> g % EpochUnits]

NsAdd(a, b) == Nanos(a.ep + b.ep, a.g + b.g)

NsSub(a, b) == Nanos(a.ep - b.ep, a.g - b.g)

NsLess(a, b) == a.ep < b.ep \/ (a.ep = b.ep /\ a.g < b.g)

\* 2^63 ns and 2^64 ns: one more than the largest Duration, and the modulus
\* of int64 arithmetic.
TwoTo63 == Nanos(307445734, 16459742)

TwoTo64 == Nanos(614891469, 3622609)

MinDuration == NsSub(Nanos(0, 0), TwoTo63)

\* The largest Duration, 2^63 - 1 ns, to the unit below.
MaxDuration == NsSub(TwoTo63, Nanos(0, 1))

\* The int64 that a product or sum of Durations leaves.
RECURSIVE WrapInt64(_)
WrapInt64(d) ==
    IF ~NsLess(d, TwoTo63) THEN WrapInt64(NsSub(d, TwoTo64))
    ELSE IF NsLess(d, MinDuration) THEN WrapInt64(NsAdd(d, TwoTo64))
    ELSE d

\* t.Sub(u) of package time: the difference, or the largest or smallest
\* Duration when the difference does not fit.
TimeSub(t, u) ==
    LET d == NsSub(t, u)
    IN  IF ~NsLess(d, TwoTo63) THEN MaxDuration
        ELSE IF NsLess(d, MinDuration) THEN MinDuration
        ELSE d

\* `genesisTime.Add(time.Duration(epoch) * EpochDuration)`
EpochToTime(epoch, genesisTime) ==
    NsAdd(genesisTime, WrapInt64(Nanos(epoch, 0)))

\* `if t.Before(genesisTime) { return 0 }` and, for the rest,
\* `abi.ChainEpoch(t.Sub(genesisTime) / EpochDuration)`: the Duration is not
\* negative there, so the quotient is its number of whole epochs.
TimeToEpoch(t, genesisTime) ==
    IF NsLess(t, genesisTime) THEN 0
    ELSE TimeSub(t, genesisTime).ep

MaxEpoch == 4

\* Epochs around 0, those of the tests, and those around the largest
\* Duration.
Epochs ==
    (-MaxEpoch..MaxEpoch)
        \cup {-60, 120, 2880, 2880 * 30, 2880 * 365}
        \cup {TwoTo63.ep - 1, TwoTo63.ep, TwoTo63.ep + 1, TwoTo64.ep + 1}

\* The genesis of the tests, one that is later and one off the second.
GenesisTimes == {Nanos(0, 0), Nanos(2880, 0), Nanos(5, 7)}

\* Instants, by their distance from the genesis time.
Distances ==
    {Nanos(ep, g) :
        ep \in (-2..MaxEpoch) \cup {120, 2880 * 365, TwoTo63.ep - 1,
                                    TwoTo63.ep, TwoTo63.ep + 1},
        g \in {0, 1, EpochUnits - 1, TwoTo63.g - 1, TwoTo63.g}}

InitTime ==
    /\ \E G \in GenesisTimes :
          \/ \E e \in Epochs : uin = [from |-> "epoch", epoch |-> e, genesis |-> G]
          \/ \E d \in Distances :
                uin = [from |-> "time", time |-> NsAdd(G, d), genesis |-> G]
    /\ uout = <<>>
    /\ CommandsIdle

\* `time := EpochToTime(epoch, G); backToEpoch := TimeToEpoch(time, G)`
EpochRoundTrip ==
    /\ uout = <<>> /\ uin.from = "epoch"
    /\ LET time == EpochToTime(uin.epoch, uin.genesis)
       IN  uout' = <<[time |-> time,
                      backToEpoch |-> TimeToEpoch(time, uin.genesis)]>>
    /\ UNCHANGED <<inputVars, singleVars, batchVars, batch1Vars, uin, ctxDone,
                   mpc, spawned, taskCh, taskChClosed, resultCh,
                   resultChClosed, wg, wstate, sender, waiter, results,
                   panicked, invoked, lateInvoked, written, collected>>

\* `epoch := TimeToEpoch(testTime, G); backToTime := EpochToTime(epoch, G)`
TimeRoundTrip ==
    /\ uout = <<>> /\ uin.from = "time"
    /\ LET epoch == TimeToEpoch(uin.time, uin.genesis)
       IN  uout' = <<[epoch |-> epoch,
                      backToTime |-> EpochToTime(epoch, uin.genesis)]>>
    /\ UNCHANGED <<inputVars, singleVars, batchVars, batch1Vars, uin, ctxDone,
                   mpc, spawned, taskCh, taskChClosed, resultCh,
                   resultChClosed, wg, wstate, sender, waiter, results,
                   panicked, invoked, lateInvoked, written, collected>>

NextTime == EpochRoundTrip \/ TimeRoundTrip

SpecTime == InitTime /\ [][NextTime]_vars

\* C24 (as claimed): for every epoch e and genesis time G,
\* TimeToEpoch(EpochToTime(e, G), G) = e.
C24_EpochRoundTrip ==
    uout # <<>> /\ uin.from = "epoch" => uout[1].backToEpoch = uin.epoch

\* C25 (as claimed): for every time t >= G, EpochToTime(TimeToEpoch(t, G), G)
\* is at most t and less than one epoch duration before it; for every t
\* before G, TimeToEpoch(t, G) = 0.
C25_TimeRoundTrip ==
    uout # <<>> /\ uin.from = "time" =>
        IF NsLess(uin.time, uin.genesis) THEN uout[1].epoch = 0
        ELSE /\ ~NsLess(uin.time, uout[1].backToTime)
             /\ NsLess(NsSub(uin.time, uout[1].backToTime), Nanos(1, 0))


\* ----------------------------------------------------- AdjustNetworkParams

MaxOffset == 21

\* Offsets around 0 and up to MaxOffset, and those of the tests: a day, 30
\* days, a year, 10 years, and -100.
Offsets ==
    (-1..MaxOffset)
        \cup {-100, EpochsPerDay, EpochsPerDay * 30, EpochsPerDay * 365,
              EpochsPerDay * 365 * 10}

\* Estimates with positive values, those of the tests among them.
Estimates ==
    LET values == {1, 10, 999, 1000, 2000}
    IN  [PositionEstimate : values, VelocityEstimate : values]

InitAdjust ==
    /\ uin \in [reward : Estimates, power : Estimates, projectionEpochs : Offsets]
    /\ uout = <<>>
    /\ CommandsIdle

\* `adjustedReward, adjustedPower := AdjustNetworkParams(reward, power, n)`
AdjustCall ==
    /\ uout = <<>>
    /\ uout' = <<AdjustNetworkParams(uin.reward, uin.power, uin.projectionEpochs)>>
    /\ UNCHANGED <<inputVars, singleVars, batchVars, batch1Vars, uin, ctxDone,
                   mpc, spawned, taskCh, taskChClosed, resultCh,
                   resultChClosed, wg, wstate, sender, waiter, results,
                   panicked, invoked, lateInvoked, written, collected>>

SpecAdjust == InitAdjust /\ [][AdjustCall]_vars

\* C26 (as claimed): AdjustNetworkParams returns its arguments unchanged for
\* an offset <= 0, and for every offset > 0 the projected power, position and
\* velocity, is strictly greater than the original power.
C26_PowerGrows ==
    uout # <<>> =>
        IF uin.projectionEpochs <= 0
        THEN uout[1].reward = uin.reward /\ uout[1].power = uin.power
        ELSE /\ uout[1].power.PositionEstimate > uin.power.PositionEstimate
             /\ uout[1].power.VelocityEstimate > uin.power.VelocityEstimate

\* C27: for every offset > 0 and every positive original reward, the reward
\* AdjustNetworkParams returns is strictly less than the original and its
\* position is at least the original position / 10 (the quotient of the
\* integer division), however large the offset.
C27_RewardDecaysToFloor ==
    uout # <<>> /\ uin.projectionEpochs > 0 =>
        /\ uout[1].reward.PositionEstimate < uin.reward.PositionEstimate
        /\ uout[1].reward.VelocityEstimate < uin.reward.VelocityEstimate
        /\ uout[1].reward.PositionEstimate >= uin.reward.PositionEstimate \div 10

\* The reward of TestAdjustNetworkParamsMinimumReward, projected by 10 years,
\* has come out at a tenth of the original.
C27_Witness ==
    /\ uout # <<>>
    /\ uin.projectionEpochs = EpochsPerDay * 365 * 10
    /\ uin.reward = [PositionEstimate |-> 1000, VelocityEstimate |-> 1000]
    /\ uout[1].reward.PositionEstimate = 100


\* --------------------------------------- worker count and channel protocol

\* C28 (as claimed): for every worker count, W <= 0 included, every entry of
\* the collection processMinersConcurrently returns is a result of
\* calculateMinerStrategy (Status "success" or "failed"), and the summary
\* counts as successful only entries that were calculated successfully.
C28_NoZeroValueEntries ==
    /\ Returned => \A i \in DOMAIN miners : results[i].Status \in {"success", "failed"}
    /\ b1out # <<>> =>
          b1out[1].summary.successCount =
              Cardinality({i \in DOMAIN miners : results[i].Status = "success"})

\* C29: the task queue is closed once, after all N tasks were enqueued; the
\* result channel is closed once, after every worker was started and has
\* exited; nothing is sent on a closed channel and no channel is closed
\* twice; and whenever the sender or a worker is about to send, its channel
\* has a free slot, however far behind the collector is.
C29_ChannelProtocol ==
    /\ [](~panicked)
    /\ [](taskChClosed => sender.next = N /\ sender.pc = "done")
    /\ [](resultChClosed =>
            /\ mpc \in {"collect", "returned"} /\ waiter = "done"
            /\ \A w \in Workers : wstate[w].pc = "done")
    /\ [][/\ taskChClosed => taskChClosed'
          /\ resultChClosed => resultChClosed'
          /\ (taskChClosed' /\ ~taskChClosed) => sender.next = N
          /\ (resultChClosed' /\ ~resultChClosed) => wg = 0]_vars
    /\ []((sender.pc = "send" /\ sender.next < N) => Len(taskCh) < ChanCap)
    /\ [](\A w \in Workers : wstate[w].pc = "send" => Len(resultCh) < ChanCap)

\* C29 witness: the task queue of a full batch is closed and every result
\* has been sent while the collector has not taken one yet.
C29_Witness ==
    /\ N = MaxMiners /\ workers >= 1
    /\ taskChClosed /\ ~resultChClosed
    /\ Len(resultCh) = N
    /\ collected = <<>>


\* ------------------------------------------------------- expiration cost

\* C30: in a strategy result the expiration cost of every sector detail is
\* the daily fault fee times the whole number of days from the termination
\* epoch to the sector's expiration (0 with less than a day left), and
\* RecommendedFee is that cost for "expire" and the termination fee for
\* "terminate".
C30_ExpirationCost ==
    \A k \in 1..Len(sout) :
        \A j \in 1..Len(sout[k].result.SectorDetails) :
            LET d == sout[k].result.SectorDetails[j]
                remaining == d.ExpirationEpoch - terminationEpoch
            IN /\ remaining > 0
               /\ \E days \in 0..remaining :
                     /\ days * 2880 <= remaining /\ remaining < (days + 1) * 2880
                     /\ d.ExpirationFee = d.DailyFaultFee * days
               /\ remaining < 2880 => d.ExpirationFee = 0
               /\ d.Strategy = "expire" => d.RecommendedFee = d.ExpirationFee
               /\ d.Strategy = "terminate" => d.RecommendedFee = d.TerminationFee

\* C30 witness: a sector with more than seven and less than eight days left
\* costs seven times its daily fault fee to let expire, and one with under a
\* day left is let expire at no cost.
C30_Witness ==
    /\ sout # <<>> /\ sout[1].result.Status = "success"
    /\ \E j \in 1..Len(sout[1].result.SectorDetails) :
          LET d == sout[1].result.SectorDetails[j]
          IN /\ d.ExpirationEpoch - terminationEpoch > 7 * 2880
             /\ d.ExpirationEpoch - terminationEpoch < 8 * 2880
             /\ d.DailyFaultFee > 0
             /\ d.ExpirationFee = d.DailyFaultFee * 7
    /\ \E j \in 1..Len(sout[1].result.SectorDetails) :
          LET d == sout[1].result.SectorDetails[j]
          IN /\ d.Strategy = "expire" /\ d.DailyFaultFee > 0
             /\ d.RecommendedFee = 0

=============================================================================
